---- MODULE Spec2Model ----
(***************************************************************************)
(* DeskPatient: the patient store (repo.py), the table model               *)
(* (ui/table_model.py) and the Manage Patients window                      *)
(* (ui/manage_patients.py): filter proxy, page proxy and the controller.   *)
(*                                                                         *)
(* Text is a sequence of one-character strings, so that lower(), upper(),  *)
(* strip(), substring and prefix tests are computed, not assumed.          *)
(* A date is a triple <<year, month, day>>.                                *)
(***************************************************************************)
EXTENDS Integers, Sequences, FiniteSets, TLC

VARIABLES
    store,               \* the patients table: a set of rows (records with an id)
    rows,                \* PatientTableModel.rows: the result of the last repo.list
    search,              \* text of the global search box
    debounce,            \* TRUE while the single-shot debounce timer is running
    fp,                  \* PatientFilterProxy: f_cin .. f_birth_to, include_values
    page,                \* PageProxy._page
    page_size,           \* PageProxy._page_size
    selected,            \* source row of the selected table row, or NoRow
    current_patient_id,  \* ManagePatientsWindow.current_patient_id, or NoId
    form,                \* the form widgets e_cin .. e_notes
    edit_enabled,        \* what _set_edit_enabled last set (fields and Save)
    del_enabled,         \* btn_del.isEnabled()
    timeout_slots,       \* MainWindow: the connections of its debounce timer's timeout
    last                 \* the operation handled last, with its input and outcome

vars == <<store, rows, search, debounce, fp, page, page_size, selected,
          current_patient_id, form, edit_enabled, del_enabled, timeout_slots, last>>

uiVars == <<rows, search, debounce, fp, page, page_size, selected,
            current_patient_id, form, edit_enabled, del_enabled, timeout_slots>>

-----------------------------------------------------------------------------
(* Bounds of the model *)

\* largest row id the store hands out in the model (so at most MaxId patients)
MaxId == 2

\* most changes of MainWindow's search text in one run
MaxChanges == 4

-----------------------------------------------------------------------------
(* Values *)

None == <<"None">>       \* Python None in a text field
NoDate == <<>>           \* Python None in a date field
NoId == 0                \* Python None as an id (row ids start at 1)
NoRow == -1              \* no row selected / QModelIndex().row()

\* lower() of SQLite, and the case folding of its LIKE: ASCII letters only
AsciiLowerChar(c) ==
    CASE c = "A" -> "a" [] c = "B" -> "b" [] c = "C" -> "c" [] c = "D" -> "d"
      [] c = "K" -> "k" [] c = "L" -> "l" [] c = "M" -> "m" [] c = "Z" -> "z"
      [] OTHER -> c

\* str.lower() / str.upper() of Python, character by character: every letter,
\* here the ASCII letters and É / é
LowerChar(c) == IF c = "É" THEN "é" ELSE AsciiLowerChar(c)

UpperChar(c) ==
    CASE c = "a" -> "A" [] c = "b" -> "B" [] c = "c" -> "C" [] c = "d" -> "D"
      [] c = "k" -> "K" [] c = "l" -> "L" [] c = "m" -> "M" [] c = "z" -> "Z"
      [] c = "é" -> "É"
      [] OTHER -> c

Lower(s) == [i \in 1..Len(s) |-> LowerChar(s[i])]
Upper(s) == [i \in 1..Len(s) |-> UpperChar(s[i])]

\* func.lower(column) as SQLite computes it
SqlLower(s) == [i \in 1..Len(s) |-> AsciiLowerChar(s[i])]

\* code point of a character (for É and é the two bytes of UTF-8): the order of
\* SQLite's BINARY collation and of QString
Code(c) ==
    CASE c = " " -> 32 [] c = "#" -> 35 [] c = "%" -> 37 [] c = "*" -> 42
      [] c = "-" -> 45 [] c = "/" -> 47
      [] c = "0" -> 48 [] c = "1" -> 49 [] c = "2" -> 50 [] c = "3" -> 51
      [] c = "4" -> 52 [] c = "5" -> 53 [] c = "6" -> 54 [] c = "7" -> 55
      [] c = "8" -> 56 [] c = "9" -> 57 [] c = "=" -> 61
      [] c = "A" -> 65 [] c = "B" -> 66 [] c = "C" -> 67 [] c = "D" -> 68
      [] c = "K" -> 75 [] c = "L" -> 76 [] c = "M" -> 77 [] c = "Z" -> 90
      [] c = "_" -> 95
      [] c = "a" -> 97 [] c = "b" -> 98 [] c = "c" -> 99 [] c = "d" -> 100
      [] c = "k" -> 107 [] c = "l" -> 108 [] c = "m" -> 109 [] c = "z" -> 122
      [] c = "É" -> 50057 [] c = "é" -> 50089
      [] OTHER -> 127

\* str.strip(): leading and trailing blanks removed
RECURSIVE LStrip(_)
LStrip(s) == IF s # <<>> /\ Head(s) = " " THEN LStrip(Tail(s)) ELSE s

RECURSIVE RStrip(_)
RStrip(s) ==
    IF s # <<>> /\ s[Len(s)] = " " THEN RStrip(SubSeq(s, 1, Len(s) - 1)) ELSE s

Strip(s) == RStrip(LStrip(s))

\* needle in hay (Python's `in` on str)
Contains(needle, hay) ==
    \E i \in 0..(Len(hay) - Len(needle)) :
        SubSeq(hay, i + 1, i + Len(needle)) = needle

\* hay.startswith(p)
StartsWith(hay, p) == Len(p) <= Len(hay) /\ SubSeq(hay, 1, Len(p)) = p

\* a < b, comparing code points left to right
RECURSIVE TextLT(_, _)
TextLT(a, b) ==
    IF b = <<>> THEN FALSE
    ELSE IF a = <<>> THEN TRUE
    ELSE IF Head(a) # Head(b) THEN Code(Head(a)) < Code(Head(b))
    ELSE TextLT(Tail(a), Tail(b))

\* `v or ""` for an optional text
OrEmpty(v) == IF v = None THEN <<>> ELSE v

\* `v or None` for a text
OrNone(v) == IF v = <<>> THEN None ELSE v

\* d1 < d2 on dates
DateLT(d1, d2) ==
    \/ d1[1] < d2[1]
    \/ d1[1] = d2[1] /\ d1[2] < d2[2]
    \/ d1[1] = d2[1] /\ d1[2] = d2[2] /\ d1[3] < d2[3]

-----------------------------------------------------------------------------
(* domain.py, repo.py *)

PatientDTO(id, cin, first, lastn, bd, phone, email, notes) ==
    [id |-> id, cin |-> cin, first_name |-> first, last_name |-> lastn,
     birth_date |-> bd, phone |-> phone, email |-> email, notes |-> notes]

\* _apply: the DTO's fields written to the row; the row keeps its id
_apply(dto, id) == [dto EXCEPT !.id = id]

\* the id SQLite gives a new row: one more than the largest rowid in the table
NextRowId(st) ==
    IF st = {} THEN 1
    ELSE (CHOOSE m \in {p.id : p \in st} : \A p \in st : p.id <= m) + 1

\* PatientRepo.exists_cin
exists_cin(st, cin, exclude_id) ==
    \E p \in st :
        /\ SqlLower(p.cin) = SqlLower(cin)
        /\ (exclude_id = NoId \/ p.id # exclude_id)

\* the UNIQUE index on patients.cin (BINARY collation) rejecting a commit
IntegrityError(st, cin, id) == \E p \in st : p.cin = cin /\ p.id # id

\* PatientRepo.create: the store afterwards, whether ValueError was raised, the new id
create(st, dto) ==
    IF exists_cin(st, dto.cin, NoId)
    THEN [store |-> st, raised |-> TRUE, id |-> NoId]
    ELSE IF IntegrityError(st, dto.cin, NoId)
    THEN [store |-> st, raised |-> TRUE, id |-> NoId]
    ELSE [store |-> st \cup {_apply(dto, NextRowId(st))}, raised |-> FALSE,
          id |-> NextRowId(st)]

\* PatientRepo.update
update(st, dto) ==
    IF exists_cin(st, dto.cin, dto.id)
    THEN [store |-> st, raised |-> TRUE]
    ELSE IF ~ \E p \in st : p.id = dto.id
    THEN [store |-> st, raised |-> FALSE]
    ELSE IF IntegrityError(st, dto.cin, dto.id)
    THEN [store |-> st, raised |-> TRUE]
    ELSE [store |-> {p \in st : p.id # dto.id} \cup {_apply(dto, dto.id)},
          raised |-> FALSE]

\* delete without the commit: the row stays
delete_uncommitted(st, pid) == st

\* a delete that empties the table when it does not find the id
delete_clearing(st, pid) == {p \in st : p.id # pid /\ \E q \in st : q.id = pid}

\* PatientRepo.delete
delete(st, pid) == {p \in st : p.id # pid}

\* PatientRepo.get
get(st, pid) == {p \in st : p.id = pid}

-----------------------------------------------------------------------------
(* Dates as text: date.isoformat(), datetime.strptime() *)

DigitChar(n) == <<"0", "1", "2", "3", "4", "5", "6", "7", "8", "9">>[n + 1]

IsDigit(c) == c \in {"0", "1", "2", "3", "4", "5", "6", "7", "8", "9"}

DigitVal(c) == Code(c) - 48

\* date.isoformat(): YYYY-MM-DD, zero padded
isoformat(d) ==
    << DigitChar(d[1] \div 1000), DigitChar((d[1] \div 100) % 10),
       DigitChar((d[1] \div 10) % 10), DigitChar(d[1] % 10), "-",
       DigitChar(d[2] \div 10), DigitChar(d[2] % 10), "-",
       DigitChar(d[3] \div 10), DigitChar(d[3] % 10) >>

\* str(int) for a non-negative int
RECURSIVE IntToText(_)
IntToText(n) ==
    IF n < 10 THEN <<DigitChar(n)>>
    ELSE Append(IntToText(n \div 10), DigitChar(n % 10))

RECURSIVE ParseInt(_)
ParseInt(s) ==
    IF s = <<>> THEN 0
    ELSE 10 * ParseInt(SubSeq(s, 1, Len(s) - 1)) + DigitVal(s[Len(s)])

AllDigits(s) == \A i \in 1..Len(s) : IsDigit(s[i])

\* s cut at every occurrence of sep
RECURSIVE Split(_, _)
Split(s, sep) ==
    IF \A i \in 1..Len(s) : s[i] # sep THEN <<s>>
    ELSE LET k == CHOOSE i \in 1..Len(s) :
                      s[i] = sep /\ \A j \in 1..(i - 1) : s[j] # sep
         IN  <<SubSeq(s, 1, k - 1)>> \o Split(SubSeq(s, k + 1, Len(s)), sep)

IsLeap(y) == (y % 4 = 0 /\ y % 100 # 0) \/ y % 400 = 0

DaysInMonth(y, m) ==
    IF m = 2 THEN (IF IsLeap(y) THEN 29 ELSE 28)
    ELSE IF m \in {4, 6, 9, 11} THEN 30 ELSE 31

\* the directives of strptime: %Y is four digits; %m and %d are one or two
\* digits, in 1..12 and 1..31
FieldY(s) == Len(s) = 4 /\ AllDigits(s)
FieldM(s) == Len(s) \in {1, 2} /\ AllDigits(s) /\ ParseInt(s) \in 1..12
FieldD(s) == Len(s) \in {1, 2} /\ AllDigits(s) /\ ParseInt(s) \in 1..31

\* date(y, m, d) exists
ValidDate(y, m, d) == y >= 1 /\ m \in 1..12 /\ d \in 1..DaysInMonth(y, m)

\* date(y, m, d), NoDate when there is no such day
DateOrNone(y, m, d) == IF ValidDate(y, m, d) THEN <<y, m, d>> ELSE NoDate

\* the date in the fields f of the text, the year in field iy, the month in im and
\* the day in id; NoDate when the text does not match the format
DateFrom(f, iy, im, id) ==
    IF Len(f) # 3 THEN NoDate
    ELSE IF ~ (FieldY(f[iy]) /\ FieldM(f[im]) /\ FieldD(f[id])) THEN NoDate
    ELSE DateOrNone(ParseInt(f[iy]), ParseInt(f[im]), ParseInt(f[id]))

\* datetime.strptime(s, fmt).date() for the three formats in use; NoDate stands
\* for ValueError
strptime(s, fmt) ==
    DateFrom(Split(s, IF fmt = "%Y-%m-%d" THEN "-" ELSE "/"),
             IF fmt = "%Y-%m-%d" THEN 1 ELSE 3,
             IF fmt = "%Y-%m-%d" THEN 2 ELSE IF fmt = "%m/%d/%Y" THEN 1 ELSE 2,
             IF fmt = "%Y-%m-%d" THEN 3 ELSE IF fmt = "%m/%d/%Y" THEN 2 ELSE 1)

\* the loop over the formats: the first that parses wins
FirstParsed(a, b, c) ==
    IF a # NoDate THEN [ok |-> TRUE, date |-> a]
    ELSE IF b # NoDate THEN [ok |-> TRUE, date |-> b]
    ELSE IF c # NoDate THEN [ok |-> TRUE, date |-> c]
    ELSE [ok |-> FALSE, date |-> NoDate]

\* parse_birth_date: [ok |-> FALSE] stands for ValueError
parse_birth_date(s0) ==
    IF Strip(s0) = <<>> THEN [ok |-> TRUE, date |-> NoDate]
    ELSE FirstParsed(strptime(Strip(s0), "%Y-%m-%d"), strptime(Strip(s0), "%m/%d/%Y"),
                     strptime(Strip(s0), "%d/%m/%Y"))

-----------------------------------------------------------------------------
(* PatientRepo.list *)

\* SQL LIKE: % matches any run of characters, _ any one character
RECURSIVE Like(_, _)
Like(s, pat) ==
    IF pat = <<>> THEN s = <<>>
    ELSE IF Head(pat) = "%"
    THEN \E k \in 0..Len(s) : Like(SubSeq(s, k + 1, Len(s)), Tail(pat))
    ELSE IF s = <<>> THEN FALSE
    ELSE /\ (Head(pat) = "_" \/ AsciiLowerChar(Head(pat)) = AsciiLowerChar(Head(s)))
         /\ Like(Tail(s), Tail(pat))

\* the WHERE clause of list for one row; q is the lowered text in %..%
ListMatches(p, q) ==
    LET pat == <<"%">> \o Lower(q) \o <<"%">> IN
    \/ Like(SqlLower(p.cin), pat)
    \/ Like(SqlLower(p.first_name), pat)
    \/ Like(SqlLower(p.last_name), pat)
    \/ Like(SqlLower(OrEmpty(p.phone)), pat)
    \/ Like(SqlLower(OrEmpty(p.email)), pat)
    \/ Like(SqlLower(OrEmpty(p.notes)), pat)
    \/ Like(SqlLower(IF p.birth_date = NoDate THEN <<>> ELSE isoformat(p.birth_date)), pat)

\* ORDER BY last_name, first_name: p may come before r
OrderLE(p, r) ==
    \/ TextLT(p.last_name, r.last_name)
    \/ p.last_name = r.last_name /\ ~ TextLT(r.first_name, p.first_name)

\* the orders ORDER BY allows for the rows m (rows with equal last and first name
\* come in an order SQL leaves open)
Orderings(m) ==
    {s \in [1..Cardinality(m) -> m] :
        /\ \A i, j \in 1..Cardinality(m) : i # j => s[i] # s[j]
        /\ \A i, j \in 1..Cardinality(m) : i < j => OrderLE(s[i], s[j])}

\* PatientRepo.list(q): every order the query may return; q = None for no filter
list(st, q) ==
    UNION {Orderings(m) :
              m \in {IF q = None \/ q = <<>> THEN st ELSE {p \in st : ListMatches(p, q)}}}

-----------------------------------------------------------------------------
(* ui/table_model.py *)

\* notes are cut to this many characters in the table
NotesShown == 120

Take(s, n) == SubSeq(s, 1, IF Len(s) < n THEN Len(s) ELSE n)

\* PatientTableModel.data(row, col, DisplayRole) as the proxies read it through
\* str(): columns 0=ID 1=CIN 2=First 3=Last 4=Birth 5=Phone 6=Email 7=Notes
data(p, c) ==
    CASE c = 0 -> IntToText(p.id)
      [] c = 1 -> p.cin
      [] c = 2 -> p.first_name
      [] c = 3 -> p.last_name
      [] c = 4 -> (IF p.birth_date = NoDate THEN <<>> ELSE isoformat(p.birth_date))
      [] c = 5 -> OrEmpty(p.phone)
      [] c = 6 -> OrEmpty(p.email)
      [] c = 7 -> Take(OrEmpty(p.notes), NotesShown)

Columns == 0..7

-----------------------------------------------------------------------------
(* PatientFilterProxy *)

\* the proxy as constructed
FilterInit ==
    [f_cin |-> <<>>, f_first |-> <<>>, f_last |-> <<>>, f_phone |-> <<>>,
     f_email |-> <<>>, f_birth_from |-> NoDate, f_birth_to |-> NoDate,
     include_values |-> [c \in {} |-> {}]]

\* a set_inclusion_values that keeps the entry of this column alone
set_inclusion_values_alone(f, col, values) ==
    [f EXCEPT !.include_values = [c \in (IF values # {} THEN {col} ELSE {}) |-> values]]

\* set_inclusion_values(col, values): values = {} stands for None or an empty set
set_inclusion_values(f, col, values) ==
    LET iv == f.include_values IN
    IF values # {}
    THEN [f EXCEPT !.include_values =
              [c \in (DOMAIN iv) \cup {col} |-> IF c = col THEN values ELSE iv[c]]]
    ELSE [f EXCEPT !.include_values = [c \in (DOMAIN iv) \ {col} |-> iv[c]]]

\* set_filters(cin=, first=, last=, phone=, email=, birth_from=, birth_to=)
set_filters(f, cin, first, lastn, phone, email, birth_from, birth_to) ==
    [f EXCEPT !.f_cin = Strip(cin),
              !.f_first = Lower(Strip(first)),
              !.f_last = Lower(Strip(lastn)),
              !.f_phone = Lower(Strip(phone)),
              !.f_email = Lower(Strip(email)),
              !.f_birth_from = birth_from,
              !.f_birth_to = birth_to]

\* _match_cin comparing the texts as they are, without lower()
_match_cin_cased(f, cell) ==
    LET p == f.f_cin
    IN  IF p = <<>> THEN TRUE
        ELSE IF StartsWith(p, <<"=">>) THEN cell = Tail(p)
        ELSE IF p[Len(p)] = "*" THEN StartsWith(cell, SubSeq(p, 1, Len(p) - 1))
        ELSE Contains(p, cell)

\* _match_cin
_match_cin(f, cell) ==
    LET p == f.f_cin
        cell_low == Lower(cell)
        p_low == Lower(p)
    IN  IF p = <<>> THEN TRUE
        ELSE IF StartsWith(p_low, <<"=">>) THEN cell_low = Tail(p_low)
        ELSE IF p_low[Len(p_low)] = "*"
        THEN StartsWith(cell_low, SubSeq(p_low, 1, Len(p_low) - 1))
        ELSE Contains(p_low, cell_low)

\* the cell the inclusion loop compares for a column: at(col), lowered except
\* for the id, the cin (lowered in the comparison) and the date
InclusionCell(p, col) ==
    IF col \in {0, 1, 4} THEN data(p, col) ELSE Lower(data(p, col))

\* the inclusion loop of filterAcceptsRow: FALSE when some column excludes the row
InclusionAccepts(f, p) ==
    \A col \in DOMAIN f.include_values :
        LET allowed == f.include_values[col]
            cell == InclusionCell(p, col)
            cell_cmp == IF col = 4 THEN cell ELSE Lower(cell)
            allowed_cmp == {IF col = 4 THEN a ELSE Lower(a) : a \in allowed}
        IN  allowed # {} => cell_cmp \in allowed_cmp

\* the birth-date block with both bounds exclusive
BirthAccepts_exclusive(f, p) ==
    LET birth == data(p, 4)
        bd == strptime(birth, "%Y-%m-%d")
    IN  IF (f.f_birth_from # NoDate \/ f.f_birth_to # NoDate) /\ birth # <<>>
        THEN IF bd = NoDate THEN TRUE
             ELSE IF f.f_birth_from # NoDate /\ ~ DateLT(f.f_birth_from, bd) THEN FALSE
             ELSE IF f.f_birth_to # NoDate /\ ~ DateLT(bd, f.f_birth_to) THEN FALSE
             ELSE TRUE
        ELSE TRUE

\* the birth-date block without the `and birth` test: a row without a date is
\* dropped while a range is set
BirthAccepts_dated(f, p) ==
    LET birth == data(p, 4)
        bd == strptime(birth, "%Y-%m-%d")
    IN  IF f.f_birth_from # NoDate \/ f.f_birth_to # NoDate
        THEN IF bd = NoDate THEN FALSE
             ELSE IF f.f_birth_from # NoDate /\ DateLT(bd, f.f_birth_from) THEN FALSE
             ELSE IF f.f_birth_to # NoDate /\ DateLT(f.f_birth_to, bd) THEN FALSE
             ELSE TRUE
        ELSE TRUE

\* the birth-date block of filterAcceptsRow: the displayed text is parsed back
BirthAccepts(f, p) ==
    LET birth == data(p, 4)
        bd == strptime(birth, "%Y-%m-%d")
    IN  IF (f.f_birth_from # NoDate \/ f.f_birth_to # NoDate) /\ birth # <<>>
        THEN IF bd = NoDate THEN TRUE
             ELSE IF f.f_birth_from # NoDate /\ DateLT(bd, f.f_birth_from) THEN FALSE
             ELSE IF f.f_birth_to # NoDate /\ DateLT(f.f_birth_to, bd) THEN FALSE
             ELSE TRUE
        ELSE TRUE

\* PatientFilterProxy.filterAcceptsRow for the row holding p
filterAcceptsRow(f, p) ==
    IF ~ InclusionAccepts(f, p) THEN FALSE
    ELSE IF ~ _match_cin(f, data(p, 1)) THEN FALSE
    ELSE IF f.f_first # <<>> /\ ~ Contains(f.f_first, Lower(data(p, 2))) THEN FALSE
    ELSE IF f.f_last # <<>> /\ ~ Contains(f.f_last, Lower(data(p, 3))) THEN FALSE
    ELSE IF f.f_phone # <<>> /\ ~ Contains(f.f_phone, Lower(data(p, 5))) THEN FALSE
    ELSE IF f.f_email # <<>> /\ ~ Contains(f.f_email, Lower(data(p, 6))) THEN FALSE
    ELSE BirthAccepts(f, p)

\* the filter proxy's rows: the accepted source rows (0-based), in source order
RECURSIVE FilterScan(_, _, _)
FilterScan(f, rs, r) ==
    IF r >= Len(rs) THEN <<>>
    ELSE (IF filterAcceptsRow(f, rs[r + 1]) THEN <<r>> ELSE <<>>)
         \o FilterScan(f, rs, r + 1)

Filtered(f, rs) == FilterScan(f, rs, 0)

-----------------------------------------------------------------------------
(* PageProxy *)

\* the page size a new PageProxy starts with, and the page-size box falls back to
DefaultPageSize == 25

Max(a, b) == IF a > b THEN a ELSE b

\* PageProxy.set_page
set_page(pg) == Max(1, pg)

\* PageProxy.set_page_size
set_page_size(size) == Max(1, size)

\* total_pages rounding down
total_pages_floor(n, k) == Max(1, n \div k)

\* PageProxy.total_pages for n source rows and page size k
total_pages(n, k) == Max(1, (n + k - 1) \div k)

\* filterAcceptsRow with the end of the window included
PageAccepts_inclusive(pg, size, source_row) ==
    LET start == (pg - 1) * size
        end == start + size
    IN  start <= source_row /\ source_row <= end

\* filterAcceptsRow with windows that start one row late
PageAccepts_late(pg, size, source_row) ==
    LET start == (pg - 1) * size + 1
        end == start + size
    IN  start <= source_row /\ source_row < end

\* PageProxy.filterAcceptsRow
PageAccepts(pg, size, source_row) ==
    LET start == (pg - 1) * size
        end == start + size
    IN  start <= source_row /\ source_row < end

\* the rows of the filter proxy (0-based positions) the page proxy keeps
PageRows(pg, size, n) == {r \in 0..(n - 1) : PageAccepts(pg, size, r)}

\* sort keys ka, kb of the filter-proxy rows a, b: a comes before b
KeyBefore(ka, kb, a, b) == TextLT(ka, kb) \/ (ka = kb /\ a < b)

\* the table sorts the page proxy by column 2 (first name), ascending; rows with
\* equal first names keep their source order
SortsBefore(filt, rs, a, b) ==
    KeyBefore(data(rs[filt[a + 1] + 1], 2), data(rs[filt[b + 1] + 1], 2), a, b)

\* the rows S of the page proxy in the order of the sort, the least row first
RECURSIVE SortByFirst(_, _, _)
SortByFirst(S, filt, rs) ==
    IF S = {} THEN <<>>
    ELSE CHOOSE w \in {<<m>> \o SortByFirst(S \ {m}, filt, rs) :
                          m \in {r \in S : \A o \in S \ {r} : SortsBefore(filt, rs, r, o)}} :
             TRUE

\* the table's rows over the filter-proxy rows filt: for each view row, the
\* position in the filter proxy
Window(filt, rs, pg, size) == SortByFirst(PageRows(pg, size, Len(filt)), filt, rs)

\* page_proxy.mapToSource then filter_proxy.mapToSource: view row -> source row,
\* for the filter-proxy rows filt and the table's rows w
ViewToSource(filt, w, view_row) == filt[w[view_row + 1] + 1]

\* the view rows that show the source row src_row
ViewRowsOf(filt, w, src_row) ==
    {v \in 0..(Len(w) - 1) : ViewToSource(filt, w, v) = src_row}

\* filter_proxy.mapFromSource then page_proxy.mapFromSource: source row -> view
\* row, NoRow when the row is filtered out or on another page
SourceToView(filt, w, src_row) ==
    IF ViewRowsOf(filt, w, src_row) = {} THEN NoRow
    ELSE CHOOSE v \in ViewRowsOf(filt, w, src_row) : TRUE

-----------------------------------------------------------------------------
(* DateField (a QDateEdit whose minimum date stands for "no date") *)

MinDate == <<1900, 1, 1>>

MaxDate == <<2999, 12, 31>>

\* DateField.set_date: QDateEdit.setDate keeps the value inside the date range
set_date(d) ==
    IF d = NoDate THEN MinDate
    ELSE IF DateLT(d, MinDate) THEN MinDate
    ELSE IF DateLT(MaxDate, d) THEN MaxDate
    ELSE d

\* DateField.get_date
get_date(qd) == IF qd = MinDate THEN NoDate ELSE qd

-----------------------------------------------------------------------------
(* ManagePatientsWindow: form, selection, pagination labels *)

\* _load_to_form(None): the widgets' contents
EmptyForm ==
    [e_cin |-> <<>>, e_first |-> <<>>, e_last |-> <<>>, e_bd |-> MinDate,
     e_phone |-> <<>>, e_email |-> <<>>, e_notes |-> <<>>]

\* _force_upper, run by e_cin.textChanged
_force_upper(s) == Upper(s)

\* _load_to_form(p): the widgets' contents for a record p
FormOf(p) ==
    [e_cin |-> _force_upper(p.cin), e_first |-> p.first_name,
     e_last |-> p.last_name, e_bd |-> set_date(p.birth_date),
     e_phone |-> OrEmpty(p.phone), e_email |-> OrEmpty(p.email),
     e_notes |-> OrEmpty(p.notes)]

\* the DTO _collect builds from the stripped fields
CollectedDTO(fm, cur, cin, fn, ln) ==
    PatientDTO(cur, cin, fn, ln, get_date(fm.e_bd), OrNone(Strip(fm.e_phone)),
               OrNone(Strip(fm.e_email)), OrNone(Strip(fm.e_notes)))

\* the validation of _collect: ok = FALSE stands for the message and None
Validated(dto) ==
    [ok |-> ~ (dto.cin = <<>> \/ dto.first_name = <<>> \/ dto.last_name = <<>>),
     dto |-> dto]

\* the validation without the check of the last name
Validated_lax(dto) == [ok |-> ~ (dto.cin = <<>> \/ dto.first_name = <<>>), dto |-> dto]

\* _collect without the check of the last name
_collect_lax(fm, cur) ==
    Validated_lax(CollectedDTO(fm, cur, Upper(Strip(fm.e_cin)), Strip(fm.e_first),
                               Strip(fm.e_last)))

\* _collect
_collect(fm, cur) ==
    Validated(CollectedDTO(fm, cur, Upper(Strip(fm.e_cin)), Strip(fm.e_first),
                           Strip(fm.e_last)))

\* a query that leaves the search text out
QueryOf_none(srch) == None

\* _refresh: the query text handed to repo.list
QueryOf(srch) == OrNone(Strip(srch))

\* the page left as it is, whatever the number of pages
LabelsPage_unclamped(n, pg, size) == pg

\* the first clamp of _update_pagination_labels: a page beyond the last one
ClampToLast(tp, pg) == IF pg > tp THEN set_page(tp) ELSE pg

\* the second clamp: a page below 1
ClampToFirst(pg) == IF pg < 1 THEN set_page(1) ELSE pg

\* _update_pagination_labels: the page after the two clamps, for n filtered rows
LabelsPage(n, pg, size) == ClampToFirst(ClampToLast(total_pages(n, size), pg))

\* the source rows shown in the table
Shown(filt, pg, size) == {filt[w + 1] : w \in PageRows(pg, size, Len(filt))}

\* _on_select with no row selected, then what it leaves: Browsing
Browsing ==
    /\ current_patient_id' = NoId
    /\ form' = EmptyForm
    /\ del_enabled' = FALSE
    /\ edit_enabled' = FALSE

\* the view row taken for the source row, without the two mapToSource calls
ResolveRow_view(filt, w, v) == v

\* _on_select: idx_view -> page_proxy.mapToSource -> filter_proxy.mapToSource
ResolveRow(filt, w, v) == ViewToSource(filt, w, v)

\* an _on_select that loads the record and leaves the form as enabled as it was
LoadRecord_form_kept(p) ==
    /\ current_patient_id' = p.id
    /\ form' = FormOf(p)
    /\ del_enabled' = TRUE
    /\ UNCHANGED edit_enabled

\* _on_select with a row selected: the record p it resolved is loaded
LoadRecord(p) ==
    /\ current_patient_id' = p.id
    /\ form' = FormOf(p)
    /\ del_enabled' = TRUE
    /\ edit_enabled' = TRUE

\* the view row v becomes the selected row, and _on_select loads the record it
\* resolves for that row
OnSelectRow(filt, w, rs, v) ==
    /\ selected' = ViewToSource(filt, w, v)
    /\ LoadRecord(rs[ResolveRow(filt, w, v) + 1])

\* _export_csv_all_filtered: the record written for each row of the filter proxy
ExportAllRecords(filt, rs) == [r \in 1..Len(filt) |-> rs[filt[r] + 1]]

\* an export that writes every filtered row, whatever the page
ExportPageRecords_all(filt, w, rs) == ExportAllRecords(filt, rs)

\* _export_csv_current_page: the record written for each row of the page proxy
ExportPageRecords(filt, w, rs) ==
    [r \in 1..Len(w) |-> rs[ViewToSource(filt, w, r - 1) + 1]]

\* the rows of the base model that hold cin
RowsWithCin(rs, cin) == {r \in 0..(Len(rs) - 1) : rs[r + 1].cin = cin}

\* _reselect_cin on a freshly reset model (nothing selected): the first row with
\* that cin is selected when it is in the table, which runs _on_select;
\* otherwise nothing changes
_reselect_cin(filt, w, rs, cin) ==
    \E hits \in {RowsWithCin(rs, cin)} :
    \E proxy_row \in {IF hits = {} THEN NoRow
                      ELSE SourceToView(filt, w, CHOOSE r \in hits : \A o \in hits : r <= o)} :
        IF proxy_row >= 0
        THEN OnSelectRow(filt, w, rs, proxy_row)
        ELSE /\ selected' = NoRow
             /\ UNCHANGED <<current_patient_id, form, del_enabled, edit_enabled>>

-----------------------------------------------------------------------------
(* Inputs of the model *)

D1 == <<1990, 5, 17>>

D0 == <<1985, 1, 2>>

\* what the user types into the form (e_cin, e_first, e_last, e_bd, e_phone)
FormInputs ==
    { [EmptyForm EXCEPT !.e_cin = <<"a", "1">>, !.e_first = <<"B", "o">>,
                        !.e_last = <<"K", "a">>],
      [EmptyForm EXCEPT !.e_cin = <<"b", "2">>, !.e_first = <<"A", "l">>,
                        !.e_last = <<"L", "o">>, !.e_bd = D1,
                        !.e_phone = <<"1", "2">>],
      [EmptyForm EXCEPT !.e_cin = <<"A", "1">>, !.e_first = <<"A", "l">>,
                        !.e_last = <<" ">>] }

SearchInputs == { <<>>, <<"l", "o">> }

PageSizeInputs == { <<"0">>, <<"-", "1">>, <<"x">>, <<"1">> }

\* the two date fields of the birth-date popup when the user accepts it
PopupDates == { <<MinDate, MinDate>>, <<MinDate, D0>> }

\* the columns whose checklist popup the model opens
PopupCols == {5}

\* a line of a CSV file after the header
CsvRow(cin, first, lastn, bd, phone) ==
    [kind |-> "row", cin |-> cin, first_name |-> first, last_name |-> lastn,
     birth_date |-> bd, phone |-> phone, email |-> <<>>, notes |-> <<>>]

CsvComment == [kind |-> "comment"]

CsvBlank == [kind |-> "blank"]

CSV_HEADERS == {"cin", "first_name", "last_name", "birth_date", "phone", "email", "notes"}

RowA1 == CsvRow(<<"a", "1">>, <<"B", "o">>, <<"K", "a">>, <<>>, <<>>)

RowB2 == CsvRow(<<"B", "2", " ">>, <<"A", "l">>, <<"L", "o">>,
                <<"0", "5", "/", "1", "7", "/", "1", "9", "9", "0">>, <<"1", "2">>)

RowNoCin == CsvRow(<<" ">>, <<"A", "l">>, <<"L", "o">>, <<>>, <<>>)

RowBadDate == CsvRow(<<"B", "2">>, <<"A", "l">>, <<"L", "o">>,
                     <<"1", "9", "9", "0", "-", "1", "3", "-", "0", "1">>, <<>>)

\* the files the model imports: empty marks a file without any line
ImportFiles ==
    { [empty |-> FALSE, fieldnames |-> CSV_HEADERS, lines |-> <<RowA1, CsvComment, RowB2>>],
      [empty |-> FALSE, fieldnames |-> CSV_HEADERS,
       lines |-> <<RowNoCin, RowBadDate, CsvBlank, RowA1, RowA1>>],
      [empty |-> FALSE, fieldnames |-> CSV_HEADERS \ {"notes"}, lines |-> <<RowB2>>],
      [empty |-> FALSE, fieldnames |-> CSV_HEADERS \ {"cin", "birth_date"},
       lines |-> <<RowA1, RowB2>>],
      [empty |-> TRUE, fieldnames |-> {}, lines |-> <<>>] }

-----------------------------------------------------------------------------
(* CSV import *)

\* int(text) of the page-size box: ok = FALSE stands for ValueError
PyInt(t) ==
    LET s == Strip(t)
        neg == s # <<>> /\ Head(s) = "-"
        digits == IF s # <<>> /\ Head(s) \in {"-", "+"} THEN Tail(s) ELSE s
    IN  IF digits = <<>> \/ ~ AllDigits(digits) THEN [ok |-> FALSE, val |-> 0]
        ELSE [ok |-> TRUE, val |-> IF neg THEN 0 - ParseInt(digits) ELSE ParseInt(digits)]

\* the lines _import_csv keeps for the reader: blank lines and # lines dropped
KeptLines(lines) == SelectSeq(lines, LAMBDA l : l.kind = "row")

\* the result of repo.create inside the import loop: ValueError counts as an error
ImportCreated(r) == [store |-> r.store, created |-> ~ r.raised]

\* one row of the import loop with its fields read: the store afterwards and
\* whether the row was created
ImportFields(st, row, cin, first, lastn, bd) ==
    IF cin = <<>> \/ first = <<>> \/ lastn = <<>> THEN [store |-> st, created |-> FALSE]
    ELSE IF ~ bd.ok THEN [store |-> st, created |-> FALSE]
    ELSE ImportCreated(create(st, PatientDTO(NoId, cin, first, lastn, bd.date,
                                             OrNone(Strip(row.phone)),
                                             OrNone(Strip(row.email)),
                                             OrNone(Strip(row.notes)))))

\* one row of the import loop
ImportRow(st, row) ==
    ImportFields(st, row, Upper(Strip(row.cin)), Strip(row.first_name),
                 Strip(row.last_name), parse_birth_date(row.birth_date))

\* a loop that counts the created rows and keeps no error
Tally_uncounted(acc, one) ==
    [store |-> one.store,
     created |-> acc.created + (IF one.created THEN 1 ELSE 0),
     errors |-> acc.errors]

\* `created += 1` or `errors.append(...)` after a row
Tally(acc, one) ==
    [store |-> one.store,
     created |-> acc.created + (IF one.created THEN 1 ELSE 0),
     errors |-> acc.errors + (IF one.created THEN 0 ELSE 1)]

\* the body of the import loop: the store, `created` and the number of errors
\* after one more row
ImportStep(acc, row) == Tally(acc, ImportRow(acc.store, row))

\* the import loop over the kept rows, from the state acc before the first row
RECURSIVE ImportRows(_, _)
ImportRows(acc, rs) ==
    IF rs = <<>> THEN acc
    ELSE CHOOSE r \in {ImportRows(a, Tail(rs)) : a \in {ImportStep(acc, Head(rs))}} : TRUE

\* _import_csv from `created = 0; errors = []` to the end of the loop
ImportLoop(st, rs) == ImportRows([store |-> st, created |-> 0, errors |-> 0], rs)

\* a header check that finds every column
MissingHeaders_none(file) == {}

\* the "Missing headers" check
MissingHeaders(file) == CSV_HEADERS \ file.fieldnames

\* the largest id in a store
MaxIdOf(st) == IF st = {} THEN 0 ELSE NextRowId(st) - 1

-----------------------------------------------------------------------------
(* The window as constructed over an empty store *)

Init ==
    /\ store = {}
    /\ rows = <<>>
    /\ search = <<>>
    /\ debounce = FALSE
    /\ timeout_slots = 0
    /\ fp = FilterInit
    /\ page = 1
    /\ page_size = DefaultPageSize
    /\ selected = NoRow
    /\ current_patient_id = NoId
    /\ form = EmptyForm
    /\ edit_enabled = FALSE
    /\ del_enabled = FALSE
    /\ last = [op |-> "init", outcome |-> "none"]

\* what `last` records: Save, Delete and Import with their outcome; the other
\* handlers leave one common mark
Did(op, outcome) == last' = [op |-> op, outcome |-> outcome]

DidOther == Did("other", "none")

\* a filter popup of column col was accepted or reset
PopupDone(col, outcome) == last' = [op |-> "popup", outcome |-> outcome, col |-> col]

\* the page proxy filters again while the source rows stay: a selected row that
\* has left the table is deselected and _on_select clears the form; otherwise
\* selection and form stay
SelectionAfter(shown) ==
    IF selected # NoRow /\ selected \notin shown
    THEN selected' = NoRow /\ Browsing
    ELSE UNCHANGED <<selected, current_patient_id, form, del_enabled, edit_enabled>>

\* search.textChanged -> _on_global_search: the debounce timer is (re)started
SearchChanged(t) ==
    /\ t # search
    /\ search' = t
    /\ debounce' = TRUE
    /\ DidOther
    /\ UNCHANGED <<store, rows, fp, page, page_size, selected, current_patient_id,
                   form, edit_enabled, del_enabled, timeout_slots>>

\* _refresh, set_page(1), _update_pagination_labels: the base model is reset to
\* what the store lists and the selection is gone
Requery(st) ==
    \E rs \in list(st, QueryOf(search)) :
        /\ rows' = rs
        /\ page' = LabelsPage(Len(Filtered(fp, rs)), set_page(1), page_size)

\* the debounce timer fires: _refresh, set_page(1), _update_pagination_labels
TimerFires ==
    /\ debounce
    /\ debounce' = FALSE
    /\ Requery(store)
    /\ selected' = NoRow
    /\ DidOther
    /\ UNCHANGED <<store, search, fp, page_size, current_patient_id, form,
                   edit_enabled, del_enabled, timeout_slots>>

\* on_page_size after `size = int(text)`: set_page_size, the clamp to the last
\* page, _update_pagination_labels; the page proxy filters again at each of them
PageSizeSet(filt, k) ==
    \E p1 \in {ClampToLast(total_pages(Len(filt), k), page)} :
        /\ page_size' = k
        /\ page' = LabelsPage(Len(filt), p1, k)
        /\ SelectionAfter(Shown(filt, page, k) \cap Shown(filt, p1, k))

\* e_page_size.editingFinished -> on_page_size
PageSizeEdited(t) ==
    /\ \E size \in {IF PyInt(t).ok THEN PyInt(t).val ELSE DefaultPageSize} :
       \E filt \in {Filtered(fp, rows)} :
          PageSizeSet(filt, set_page_size(size))
    /\ DidOther
    /\ UNCHANGED <<store, rows, search, debounce, timeout_slots, fp>>

\* set_page(pg) then _update_pagination_labels, on the rows as they are
GoToPage(pg) ==
    \E filt \in {Filtered(fp, rows)} :
        /\ page' = LabelsPage(Len(filt), pg, page_size)
        /\ SelectionAfter(Shown(filt, pg, page_size))

\* btn_prev.clicked (enabled while page > 1)
Prev ==
    /\ page > 1
    /\ GoToPage(set_page(page - 1))
    /\ DidOther
    /\ UNCHANGED <<store, rows, search, debounce, timeout_slots, fp, page_size>>

\* btn_next.clicked (enabled while page < total pages)
Next_ ==
    /\ page < total_pages(Len(Filtered(fp, rows)), page_size)
    /\ GoToPage(set_page(page + 1))
    /\ DidOther
    /\ UNCHANGED <<store, rows, search, debounce, timeout_slots, fp, page_size>>

\* the user clicks a row of the table: selectionChanged -> _on_select
SelectRow(v) ==
    /\ \E filt \in {Filtered(fp, rows)} :
       \E w \in {Window(filt, rows, page, page_size)} :
          /\ v \in 0..(Len(w) - 1)
          /\ ViewToSource(filt, w, v) # selected
          /\ OnSelectRow(filt, w, rows, v)
    /\ DidOther
    /\ UNCHANGED <<store, rows, search, debounce, timeout_slots, fp, page, page_size>>

\* a New that leaves the table's selection alone
New_selection_kept ==
    /\ current_patient_id' = NoId
    /\ form' = EmptyForm
    /\ del_enabled' = FALSE
    /\ edit_enabled' = TRUE
    /\ Did("new", "done")
    /\ UNCHANGED <<store, rows, search, debounce, timeout_slots, fp, page, page_size, selected>>

\* btn_new.clicked -> _new: clearSelection (which runs _on_select with nothing
\* selected when a row was selected), _load_to_form(None), _set_edit_enabled(True)
New ==
    /\ selected' = NoRow
    /\ current_patient_id' = NoId
    /\ form' = EmptyForm
    /\ del_enabled' = FALSE
    /\ edit_enabled' = TRUE
    /\ Did("new", "done")
    /\ UNCHANGED <<store, rows, search, debounce, timeout_slots, fp, page, page_size>>

\* the user fills in the (enabled) form
TypeForm(f) ==
    /\ edit_enabled
    /\ form' = [f EXCEPT !.e_cin = _force_upper(f.e_cin)]
    /\ form' # form
    /\ DidOther
    /\ UNCHANGED <<store, rows, search, debounce, timeout_slots, fp, page, page_size, selected,
                   current_patient_id, edit_enabled, del_enabled>>

\* a Save that returns early: nothing but the message box
SaveAborted(outcome) ==
    /\ Did("save", outcome)
    /\ UNCHANGED <<store, uiVars>>

\* the tail of _save after the store accepted the write:
\* _refresh, set_page(1), _update_pagination_labels, _reselect_cin
SaveDone(st, dto, outcome) ==
    /\ store' = st
    /\ \E rs \in list(st, QueryOf(search)) :
       \E filt \in {Filtered(fp, rs)} :
       \E pg \in {LabelsPage(Len(filt), set_page(1), page_size)} :
          /\ rows' = rs
          /\ page' = pg
          /\ _reselect_cin(filt, Window(filt, rs, pg, page_size), rs, dto.cin)
    /\ Did("save", outcome)
    /\ UNCHANGED <<search, debounce, timeout_slots, fp, page_size>>

\* _save from the store's answer r to the write
SaveWritten(r, dto, outcome) ==
    IF r.raised THEN SaveAborted("conflict") ELSE SaveDone(r.store, dto, outcome)

\* _save for the collected DTO; confirm is the user's answer to the question
\* _save asks before a modification
SaveCollected(c, confirm) ==
    IF ~ c.ok THEN confirm /\ SaveAborted("invalid")
    ELSE IF c.dto.id = NoId
    THEN /\ confirm
         /\ \E r \in {create(store, c.dto)} :
               /\ r.raised \/ NextRowId(store) <= MaxId
               /\ SaveWritten(r, c.dto, "created")
    ELSE IF ~ confirm THEN SaveAborted("declined")
    ELSE \E r \in {update(store, c.dto)} : SaveWritten(r, c.dto, "updated")

\* btn_save.clicked -> _save
Save ==
    /\ edit_enabled
    /\ \E confirm \in BOOLEAN : \E c \in {_collect(form, current_patient_id)} :
          SaveCollected(c, confirm)

\* _delete after the confirmation: repo.delete, _load_to_form(None), _refresh,
\* _set_edit_enabled(False), _update_pagination_labels
Deleted(st) ==
    /\ store' = st
    /\ current_patient_id' = NoId
    /\ form' = EmptyForm
    /\ del_enabled' = FALSE
    /\ edit_enabled' = FALSE
    /\ selected' = NoRow
    /\ \E rs \in list(st, QueryOf(search)) :
          /\ rows' = rs
          /\ page' = LabelsPage(Len(Filtered(fp, rs)), page, page_size)
    /\ Did("delete", "deleted")
    /\ UNCHANGED <<search, debounce, timeout_slots, fp, page_size>>

\* btn_del.clicked -> _delete
Delete ==
    /\ del_enabled
    /\ \E confirm \in BOOLEAN :
          IF current_patient_id = NoId
          THEN confirm /\ Did("delete", "nothing") /\ UNCHANGED <<store, uiVars>>
          ELSE IF ~ confirm
          THEN Did("delete", "declined") /\ UNCHANGED <<store, uiVars>>
          ELSE \E st \in {delete(store, current_patient_id)} : Deleted(st)

\* _import_csv after the loop, r its result: _refresh, set_page(1),
\* _update_pagination_labels, _show_import_result(created, errors)
Imported(r) ==
    /\ MaxIdOf(r.store) <= MaxId
    /\ store' = r.store
    /\ Requery(r.store)
    /\ selected' = NoRow
    /\ last' = [op |-> "import", outcome |-> "done", created |-> r.created,
                 errors |-> r.errors]
    /\ UNCHANGED <<search, debounce, timeout_slots, fp, page_size, current_patient_id, form,
                   edit_enabled, del_enabled>>

\* btn_import.clicked -> _import_csv with the chosen file
ImportCsv(file) ==
    IF file.empty THEN Did("import", "empty") /\ UNCHANGED <<store, uiVars>>
    ELSE IF MissingHeaders(file) # {}
    THEN /\ last' = [op |-> "import", outcome |-> "rejected",
                     missing |-> MissingHeaders(file)]
         /\ UNCHANGED <<store, uiVars>>
    ELSE \E r \in {ImportLoop(store, KeptLines(file.lines))} : Imported(r)

\* the filter changed to f, filt its rows: set_page(1), _update_pagination_labels
FilterSet(f, filt) ==
    \E pg \in {LabelsPage(Len(filt), set_page(1), page_size)} :
        /\ fp' = f
        /\ page' = pg
        /\ SelectionAfter(Shown(filt, pg, page_size))
        /\ UNCHANGED <<store, rows, search, debounce, timeout_slots, page_size>>

\* the filter changed, then set_page(1) and _update_pagination_labels
FilterChanged(f) == \E g \in {f} : FilterSet(g, Filtered(g, rows))

\* the birth-date popup accepted with the two date fields at from_d and to_d
DatePopupAccept(from_d, to_d) ==
    /\ FilterChanged(set_filters(fp, fp.f_cin, fp.f_first, fp.f_last, fp.f_phone,
                                 fp.f_email, get_date(from_d), get_date(to_d)))
    /\ PopupDone(4, "accepted")

\* Reset in the birth-date popup
DatePopupReset ==
    /\ FilterChanged(set_filters(fp, fp.f_cin, fp.f_first, fp.f_last, fp.f_phone,
                                 fp.f_email, NoDate, NoDate))
    /\ PopupDone(4, "reset")

\* the values a checklist popup lists for a column: those of the filtered rows
SeenIn(filt, rs, col) == {data(rs[filt[i] + 1], col) : i \in 1..Len(filt)}

Seen(f, rs, col) == SeenIn(Filtered(f, rs), rs, col)

\* the check state an item of the popup starts with
InitiallyChecked(f, col, v) ==
    \/ col \notin DOMAIN f.include_values
    \/ v \in f.include_values[col]

\* the text of a checklist item and the value accept() reads back from it
ItemText(v) == IF v = <<>> THEN <<"(", "b", "l", "a", "n", "k", ")">> ELSE v

ItemValue(t) == IF t = <<"(", "b", "l", "a", "n", "k", ")">> THEN <<>> ELSE t

\* accept() of a checklist popup over the listed values seen: the set handed to
\* set_inclusion_values
Chosen(seen, checked) ==
    IF Cardinality({ItemValue(ItemText(v)) : v \in checked}) = Cardinality(seen) THEN {}
    ELSE {ItemValue(ItemText(v)) : v \in checked}

\* a checklist popup accepted with the items in `checked` ticked
ListPopupAccept(col, checked) ==
    /\ \E seen \in {Seen(fp, rows, col)} :
          /\ checked \subseteq seen
          /\ FilterChanged(set_inclusion_values(fp, col, Chosen(seen, checked)))
    /\ PopupDone(col, "accepted")

\* Reset in a checklist popup
ListPopupReset(col) ==
    /\ FilterChanged(set_inclusion_values(fp, col, {}))
    /\ PopupDone(col, "reset")

Next ==
    \/ \E t \in SearchInputs : SearchChanged(t)
    \/ TimerFires
    \/ \E t \in PageSizeInputs : PageSizeEdited(t)
    \/ Prev
    \/ Next_
    \/ \E v \in 0..MaxId : SelectRow(v)
    \/ New
    \/ \E f \in FormInputs : TypeForm(f)
    \/ Save
    \/ Delete
    \/ \E file \in ImportFiles : ImportCsv(file)
    \/ \E d \in PopupDates : DatePopupAccept(d[1], d[2])
    \/ DatePopupReset
    \/ \E col \in PopupCols : \E checked \in SUBSET Seen(fp, rows, col) :
          ListPopupAccept(col, checked)
    \/ \E col \in PopupCols : ListPopupReset(col)

Spec == Init /\ [][Next]_vars

-----------------------------------------------------------------------------
(* CSV text: csv.writer on export, splitlines and csv.DictReader on import *)

\* the doubled quote characters of a quoted field
RECURSIVE CsvDoubled(_)
CsvDoubled(s) ==
    IF s = <<>> THEN <<>>
    ELSE (IF Head(s) = "\"" THEN <<"\"", "\"">> ELSE <<Head(s)>>) \o CsvDoubled(Tail(s))

\* csv.writer, QUOTE_MINIMAL: a field holding the delimiter, a quote or a line
\* break is written in quotes
CsvField(s) ==
    IF \E i \in 1..Len(s) : s[i] \in {",", "\"", "\n", "\r"}
    THEN <<"\"">> \o CsvDoubled(s) \o <<"\"">>
    ELSE s

\* w.writerow([...]) of the two exports for the record p, with its line end
CsvWriteRow(p) ==
    CsvField(p.cin) \o <<",">> \o CsvField(p.first_name) \o <<",">>
      \o CsvField(p.last_name) \o <<",">>
      \o CsvField(IF p.birth_date = NoDate THEN <<>> ELSE isoformat(p.birth_date))
      \o <<",">> \o CsvField(OrEmpty(p.phone)) \o <<",">> \o CsvField(OrEmpty(p.email))
      \o <<",">> \o CsvField(OrEmpty(p.notes)) \o <<"\r", "\n">>

\* the text of an exported file after its header line
RECURSIVE ExportText(_)
ExportText(recs) ==
    IF recs = <<>> THEN <<>> ELSE CsvWriteRow(Head(recs)) \o ExportText(Tail(recs))

\* the positions of the line breaks of t
Breaks(t) == {i \in 1..Len(t) : t[i] \in {"\r", "\n"}}

\* str.splitlines(): cut at \n, \r and \r\n
RECURSIVE SplitLines(_)
SplitLines(t) ==
    IF t = <<>> THEN <<>>
    ELSE IF Breaks(t) = {} THEN <<t>>
    ELSE CHOOSE r \in
           {<<SubSeq(t, 1, k - 1)>>
              \o SplitLines(SubSeq(t, IF t[k] = "\r" /\ k < Len(t) /\ t[k + 1] = "\n"
                                      THEN k + 2 ELSE k + 1, Len(t))) :
                k \in {i \in Breaks(t) : \A j \in Breaks(t) : i <= j}} : TRUE

\* the lines after the header that _import_csv hands to the reader
KeptText(lines) ==
    SelectSeq(lines, LAMBDA l : Strip(l) # <<>> /\ ~ StartsWith(LStrip(l), <<"#">>))

\* the parser of csv.reader before the first line: its state, the field and the
\* record being read, the records read
ReaderStart == [st |-> "start_record", field |-> <<>>, fields |-> <<>>, out |-> <<>>]

\* csv.reader, one character c of a line
CsvChar(a, c) ==
    CASE c = "," /\ a.st # "in_quoted" ->
            [a EXCEPT !.st = "start_field", !.field = <<>>,
                      !.fields = Append(a.fields, a.field)]
      [] c = "\"" /\ a.st \in {"start_record", "start_field"} ->
            [a EXCEPT !.st = "in_quoted"]
      [] c = "\"" /\ a.st = "in_quoted" -> [a EXCEPT !.st = "quote_in_quoted"]
      [] c = "\"" /\ a.st = "quote_in_quoted" ->
            [a EXCEPT !.st = "in_quoted", !.field = Append(a.field, c)]
      [] c # "\"" /\ a.st = "in_quoted" -> [a EXCEPT !.field = Append(a.field, c)]
      [] OTHER -> [a EXCEPT !.st = "in_field", !.field = Append(a.field, c)]

\* csv.reader at the end of a line: inside quotes the field goes on with the next
\* line (the lines carry no line break, so none is added), otherwise the record ends
CsvEol(a) ==
    IF a.st \in {"start_record", "in_quoted"} THEN a
    ELSE [st |-> "start_record", field |-> <<>>, fields |-> <<>>,
          out |-> Append(a.out, Append(a.fields, a.field))]

\* csv.reader over the characters of a line from position i on
RECURSIVE CsvLine(_, _, _)
CsvLine(a, line, i) ==
    IF i > Len(line) THEN CsvEol(a)
    ELSE CHOOSE r \in {CsvLine(b, line, i + 1) : b \in {CsvChar(a, line[i])}} : TRUE

\* csv.reader over the kept lines; when they end inside quotes the record read so
\* far is returned
RECURSIVE CsvParse(_, _)
CsvParse(a, lines) ==
    IF lines = <<>>
    THEN (IF a.st = "start_record" THEN a.out ELSE Append(a.out, Append(a.fields, a.field)))
    ELSE CHOOSE r \in {CsvParse(b, Tail(lines)) : b \in {CsvLine(a, Head(lines), 1)}} : TRUE

\* `row.get(name) or ""` for the name in column i of the header
RowGet(rec, i) == IF i <= Len(rec) THEN rec[i] ELSE <<>>

\* csv.DictReader over the records read, for a header of CSV_HEADERS in order
DictRows(recs) ==
    [k \in 1..Len(recs) |->
        [kind |-> "row", cin |-> RowGet(recs[k], 1), first_name |-> RowGet(recs[k], 2),
         last_name |-> RowGet(recs[k], 3), birth_date |-> RowGet(recs[k], 4),
         phone |-> RowGet(recs[k], 5), email |-> RowGet(recs[k], 6),
         notes |-> RowGet(recs[k], 7)]]

\* _import_csv of a file whose text after a full header is t, into the store st
ImportText(st, t) ==
    ImportLoop(st, DictRows(CsvParse(ReaderStart, KeptText(SplitLines(t)))))

\* btn_export_page.clicked -> _export_csv_current_page with a path chosen
ExportPage ==
    /\ \E filt \in {Filtered(fp, rows)} :
       \E recs \in {ExportPageRecords(filt, Window(filt, rows, page, page_size), rows)} :
          last' = [op |-> "export", outcome |-> "done", records |-> recs,
                   text |-> ExportText(recs)]
    /\ UNCHANGED <<store, uiVars>>

\* btn_export_all.clicked -> _export_csv_all_filtered with a path chosen
ExportAll ==
    /\ \E recs \in {ExportAllRecords(Filtered(fp, rows), rows)} :
          last' = [op |-> "export_all", outcome |-> "done", records |-> recs,
                   text |-> ExportText(recs)]
    /\ UNCHANGED <<store, uiVars>>

-----------------------------------------------------------------------------
(* The window opened over a store that already holds patients *)

O1 == PatientDTO(1, <<"A", "1">>, <<"B", "o">>, <<"K", "a">>, NoDate, None, None, None)

O2 == PatientDTO(2, <<"B", "2">>, <<"A", "l">>, <<"L", "o">>, D1,
                 <<"(", "b", "l", "a", "n", "k", ")">>, None, <<"a", ",", "\"", "b">>)

O3 == PatientDTO(3, <<"C", "3">>, <<"C", "a">>, <<"M", "a">>, D0, None, None,
                 <<"a", "\n", "b">>)

O4 == PatientDTO(3, <<"#", "3">>, <<"C", "a">>, <<"M", "a">>, NoDate, <<"1", "2">>,
                 None, None)

\* a patient imported from a row whose birth_date is 1900-01-01
O6 == PatientDTO(1, <<"D", "4">>, <<"D", "a">>, <<"Z", "a">>, <<1900, 1, 1>>, None, None, None)

\* the stores the window is opened over
OpenedStores == { {O1, O2, O3}, {O1, O2, O4}, {O1, O2}, {O1}, {O6} }

\* __init__: _refresh, set_page(1), _update_pagination_labels, _load_to_form(None),
\* _set_edit_enabled(False)
InitOpened ==
    /\ store \in OpenedStores
    /\ rows \in list(store, QueryOf(<<>>))
    /\ search = <<>>
    /\ debounce = FALSE
    /\ timeout_slots = 0
    /\ fp = FilterInit
    /\ page = 1
    /\ page_size = DefaultPageSize
    /\ selected = NoRow
    /\ current_patient_id = NoId
    /\ form = EmptyForm
    /\ edit_enabled = FALSE
    /\ del_enabled = FALSE
    /\ last = [op |-> "init", outcome |-> "none"]

NextOpened ==
    \/ \E t \in PageSizeInputs : PageSizeEdited(t)
    \/ Prev
    \/ Next_
    \/ \E v \in 0..MaxId : SelectRow(v)
    \/ Save
    \/ Delete
    \/ ExportPage
    \/ ExportAll
    \/ \E col \in PopupCols : \E checked \in SUBSET Seen(fp, rows, col) :
          ListPopupAccept(col, checked)
    \/ \E col \in PopupCols : ListPopupReset(col)

SpecOpened == InitOpened /\ [][NextOpened]_vars

-----------------------------------------------------------------------------
(* The window over three patients, with the popups of three columns in use *)

\* the columns whose checklist popup is opened: last name and phone
FramePopupCols == {3, 5}

InitFrame ==
    /\ store = {O1, O2, O3}
    /\ rows \in list(store, QueryOf(<<>>))
    /\ search = <<>>
    /\ debounce = FALSE
    /\ timeout_slots = 0
    /\ fp = FilterInit
    /\ page = 1
    /\ page_size = DefaultPageSize
    /\ selected = NoRow
    /\ current_patient_id = NoId
    /\ form = EmptyForm
    /\ edit_enabled = FALSE
    /\ del_enabled = FALSE
    /\ last = [op |-> "init", outcome |-> "none"]

NextFrame ==
    \/ \E t \in SearchInputs : SearchChanged(t)
    \/ TimerFires
    \/ \E t \in PageSizeInputs : PageSizeEdited(t)
    \/ Prev
    \/ Next_
    \/ \E v \in 0..MaxId : SelectRow(v)
    \/ Save
    \/ Delete
    \/ \E file \in ImportFiles : ImportCsv(file)
    \/ \E d \in PopupDates : DatePopupAccept(d[1], d[2])
    \/ DatePopupReset
    \/ \E col \in FramePopupCols : \E checked \in SUBSET Seen(fp, rows, col) :
          ListPopupAccept(col, checked)
    \/ \E col \in FramePopupCols : ListPopupReset(col)

SpecFrame == InitFrame /\ [][NextFrame]_vars

-----------------------------------------------------------------------------
(* The store driven through PatientRepo and CSV import *)

\* the DTOs handed to PatientRepo.create and PatientRepo.update
RepoCins == { <<"A", "1">>, <<"a", "1">>, <<"É">>, <<"é">> }

RepoLastNames == { <<"L", "o">> }

RepoDTO(id, cin, lastn) == PatientDTO(id, cin, <<"A", "l">>, lastn, NoDate, None, None, None)

DidRepo(op, dto, r) ==
    last' = [op |-> op, outcome |-> IF r.raised THEN "raised" ELSE "ok", dto |-> dto]

\* PatientRepo.create(dto)
RepoCreate(dto) ==
    /\ create(store, dto).raised \/ NextRowId(store) <= MaxId
    /\ store' = create(store, dto).store
    /\ DidRepo("create", dto, create(store, dto))
    /\ UNCHANGED uiVars

\* PatientRepo.update(dto)
RepoUpdate(dto) ==
    /\ store' = update(store, dto).store
    /\ DidRepo("update", dto, update(store, dto))
    /\ UNCHANGED uiVars

\* PatientRepo.delete(pid)
RepoDelete(pid) ==
    /\ store' = delete(store, pid)
    /\ last' = [op |-> "delete", outcome |-> "ok", dto |-> pid]
    /\ UNCHANGED uiVars

NextRepo ==
    \/ \E c \in RepoCins : \E l \in RepoLastNames : RepoCreate(RepoDTO(NoId, c, l))
    \/ \E i \in 1..(MaxId + 1) : \E c \in RepoCins : \E l \in RepoLastNames :
          RepoUpdate(RepoDTO(i, c, l))
    \/ \E i \in 1..(MaxId + 1) : RepoDelete(i)
    \/ \E file \in ImportFiles : ImportCsv(file)

SpecRepo == Init /\ [][NextRepo]_vars

-----------------------------------------------------------------------------
(* PatientRepo.list called on stores that hold patients *)

O5 == PatientDTO(4, <<"É">>, <<"D", "a">>, <<"Z", "a">>, NoDate, None, None, None)

\* the stores list is called on
ListStores == SUBSET {O1, O2, O3, O5}

\* the texts handed to list as q
ListQueries == { None, <<>>, <<"l", "o">>, <<"A">>, <<"1", "9", "9">>, <<"_">>, <<"É">> }

InitList ==
    /\ store \in ListStores
    /\ rows = <<>>
    /\ search = <<>>
    /\ debounce = FALSE
    /\ timeout_slots = 0
    /\ fp = FilterInit
    /\ page = 1
    /\ page_size = DefaultPageSize
    /\ selected = NoRow
    /\ current_patient_id = NoId
    /\ form = EmptyForm
    /\ edit_enabled = FALSE
    /\ del_enabled = FALSE
    /\ last = [op |-> "init", outcome |-> "none"]

\* PatientRepo.list(q)
RepoList(q) ==
    /\ \E rs \in list(store, q) :
          last' = [op |-> "list", outcome |-> "ok", dto |-> q, result |-> rs]
    /\ UNCHANGED <<store, uiVars>>

NextList ==
    \/ \E q \in ListQueries : RepoList(q)
    \/ \E i \in 1..(MaxId + 1) : RepoDelete(i)

SpecList == InitList /\ [][NextList]_vars

-----------------------------------------------------------------------------
(* MainWindow (ui/main_window.py): the search box, its debounce timer and the *)
(* patient table; rows, search and debounce stand for pt_model.rows,          *)
(* search.text() and the timer of this window                                 *)

\* the texts typed into MainWindow's search box
MainSearchInputs == { <<>>, <<"l">>, <<"l", "o">> }

\* __init__: _refresh_patients; the timer is made at the first search change
InitMain ==
    /\ store \in OpenedStores
    /\ rows \in list(store, QueryOf(<<>>))
    /\ search = <<>>
    /\ debounce = FALSE
    /\ timeout_slots = 0
    /\ fp = FilterInit
    /\ page = 1
    /\ page_size = DefaultPageSize
    /\ selected = NoRow
    /\ current_patient_id = NoId
    /\ form = EmptyForm
    /\ edit_enabled = FALSE
    /\ del_enabled = FALSE
    /\ last = [op |-> "init", outcome |-> "none"]

\* search.textChanged -> _on_search_changed -> _debounced: timeout.connect(fn) adds
\* a connection to those already made, start(ms) (re)starts the timer
MainSearchChanged(t) ==
    /\ t # search
    /\ timeout_slots < MaxChanges
    /\ search' = t
    /\ timeout_slots' = timeout_slots + 1
    /\ debounce' = TRUE
    /\ last' = [op |-> "search", outcome |-> "started"]
    /\ UNCHANGED <<store, rows, fp, page, page_size, selected, current_patient_id,
                   form, edit_enabled, del_enabled>>

\* the timer expires: timeout calls every connection, each one _refresh_patients
MainTimeout ==
    /\ debounce
    /\ debounce' = FALSE
    /\ rows' \in list(store, QueryOf(search))
    /\ last' = [op |-> "timeout", outcome |-> "done", refreshes |-> timeout_slots]
    /\ UNCHANGED <<store, search, fp, page, page_size, selected, current_patient_id,
                   form, edit_enabled, del_enabled, timeout_slots>>

NextMain ==
    \/ \E t \in MainSearchInputs : MainSearchChanged(t)
    \/ MainTimeout

SpecMain == InitMain /\ [][NextMain]_vars

\* a and b are equal when letter case is ignored
SameIgnoringCase(a, b) ==
    /\ Len(a) = Len(b)
    /\ \A i \in 1..Len(a) : UpperChar(a[i]) = UpperChar(b[i])

\* C1: after any sequence of create, update, delete and CSV import from an empty
\* store, no two patient records have cins that are equal ignoring case.
C1_UniqueCin ==
    \A p, q \in store : p # q => ~ SameIgnoringCase(p.cin, q.cin)

\* C1 witness: two records are stored and a create whose cin differs only in
\* letter case from a stored one has just been refused.
C1_Witness ==
    /\ Cardinality(store) = 2
    /\ last.op = "create"
    /\ last.outcome = "raised"
    /\ \E p \in store : p.cin # last.dto.cin /\ SameIgnoringCase(p.cin, last.dto.cin)

\* the cin of dto collides with a record of st other than the one excluded
Collides(st, dto, exclude_id) ==
    \E p \in st : p.id # exclude_id /\ SameIgnoringCase(p.cin, dto.cin)

\* C2: create with a cin equal (ignoring case) to an existing record's, and update
\* with a cin equal (ignoring case) to a different record's, raise the conflict
\* error and leave the store exactly as it was.
C2_ConflictLeavesStore ==
    [][ /\ (last'.op = "create" /\ Collides(store, last'.dto, NoId))
              => (last'.outcome = "raised" /\ store' = store)
        /\ (last'.op = "update" /\ Collides(store, last'.dto, last'.dto.id))
              => (last'.outcome = "raised" /\ store' = store) ]_vars

\* C2 witness: an update that set a record's cin to a case variant of another
\* record's cin has just been refused.
C2_Witness ==
    /\ last.op = "update"
    /\ last.outcome = "raised"
    /\ \E p \in store : p.id = last.dto.id
    /\ \E p \in store : p.id # last.dto.id /\ p.cin # last.dto.cin
                        /\ SameIgnoringCase(p.cin, last.dto.cin)

-----------------------------------------------------------------------------
(* The filter proxy on its own: any source rows, any filter state *)

\* at most this many columns carry an inclusion set at once in SpecFilter
MaxInclusions == 2

T1 == PatientDTO(1, <<"A", "B", "1", "2">>, <<"A", "l">>, <<"K", "a">>, D1,
                 <<"1", "2">>, <<"a", "b">>, <<"A", "b", " ", "c">>)

T2 == PatientDTO(2, <<"z", "a", "b", "1">>, <<"a", "l">>, <<"L", "o">>, NoDate,
                 None, None, None)

T3 == PatientDTO(3, <<"B", "1">>, <<"B", "o">>, <<"K", "a">>, D0,
                 <<"2">>, <<"B">>, <<>>)

T4 == PatientDTO(4, <<"A", "B", "z", "d">>, <<"C", "a">>, <<"M", "a">>, NoDate,
                 None, None, None)

T5 == PatientDTO(5, <<"z", "A", "B", "1", "2">>, <<"D", "a">>, <<"Z", "a">>, NoDate,
                 None, None, None)

FilterSources == { <<T1, T2, T3>>, <<T3, T1>>, <<T2>>, <<>>, <<T5, T4, T1>> }

Kw(cin, first, lastn, phone, email, birth_from, birth_to) ==
    [cin |-> cin, first |-> first, last |-> lastn, phone |-> phone, email |-> email,
     birth_from |-> birth_from, birth_to |-> birth_to]

\* the keyword arguments handed to set_filters
FilterInputs ==
    { Kw(<<>>, <<>>, <<>>, <<>>, <<>>, NoDate, NoDate),
      Kw(<<"=", "a", "b", "1", "2">>, <<>>, <<>>, <<>>, <<>>, NoDate, NoDate),
      Kw(<<"A", "B", "*">>, <<>>, <<>>, <<>>, <<>>, NoDate, NoDate),
      Kw(<<"b", "1">>, <<>>, <<>>, <<>>, <<>>, NoDate, NoDate),
      Kw(<<" ">>, <<"A", "L", " ">>, <<>>, <<>>, <<>>, NoDate, NoDate),
      Kw(<<>>, <<>>, <<"k">>, <<"2">>, <<>>, NoDate, NoDate),
      Kw(<<>>, <<>>, <<>>, <<>>, <<"B">>, NoDate, NoDate),
      Kw(<<>>, <<>>, <<>>, <<>>, <<>>, D1, NoDate),
      Kw(<<>>, <<>>, <<>>, <<>>, <<>>, NoDate, D0),
      Kw(<<>>, <<>>, <<>>, <<>>, <<>>, D0, D1),
      Kw(<<"b", "1">>, <<"o">>, <<>>, <<>>, <<>>, D1, D0),
      Kw(<<"1">>, <<"l">>, <<>>, <<>>, <<>>, NoDate, D1),
      Kw(<<"=">>, <<>>, <<>>, <<>>, <<>>, NoDate, NoDate),
      Kw(<<"*">>, <<>>, <<>>, <<>>, <<>>, NoDate, NoDate),
      Kw(<<"=", "A", "B", "*">>, <<>>, <<>>, <<>>, <<>>, NoDate, NoDate) }

\* the (column, values) pairs handed to set_inclusion_values
InclusionInputs ==
    { <<0, {<<"1">>, <<"3">>}>>, <<1, {<<"a", "b", "1", "2">>}>>,
      <<2, {<<"A", "L">>}>>, <<2, {<<"B", "o">>, <<"x">>}>>, <<3, {<<"K", "a">>}>>,
      <<4, {isoformat(D1)}>>, <<4, {<<>>, isoformat(D0)}>>, <<5, {<<>>}>>,
      <<6, {<<"A", "B">>}>>, <<7, {<<"a", "b", " ", "c">>, <<>>}>>,
      <<2, {}>>, <<4, {}>> }

InitFilter ==
    /\ store = {}
    /\ rows \in FilterSources
    /\ search = <<>>
    /\ debounce = FALSE
    /\ timeout_slots = 0
    /\ fp = FilterInit
    /\ page = 1
    /\ page_size = DefaultPageSize
    /\ selected = NoRow
    /\ current_patient_id = NoId
    /\ form = EmptyForm
    /\ edit_enabled = FALSE
    /\ del_enabled = FALSE
    /\ last = [op |-> "init", outcome |-> "none"]

\* PatientFilterProxy.set_filters(**kw)
SetFilters(kw) ==
    /\ fp' = set_filters(fp, kw.cin, kw.first, kw.last, kw.phone, kw.email,
                         kw.birth_from, kw.birth_to)
    /\ UNCHANGED <<store, rows, search, debounce, timeout_slots, page, page_size, selected,
                   current_patient_id, form, edit_enabled, del_enabled, last>>

\* PatientFilterProxy.set_inclusion_values(col, values)
SetInclusion(col, values) ==
    /\ fp' = set_inclusion_values(fp, col, values)
    /\ Cardinality(DOMAIN fp'.include_values) <= MaxInclusions
    /\ UNCHANGED <<store, rows, search, debounce, timeout_slots, page, page_size, selected,
                   current_patient_id, form, edit_enabled, del_enabled, last>>

NextFilter ==
    \/ \E kw \in FilterInputs : SetFilters(kw)
    \/ \E i \in InclusionInputs : SetInclusion(i[1], i[2])

SpecFilter == InitFilter /\ [][NextFilter]_vars

\* pred occurs in cell, ignoring case; the empty predicate is no constraint
TextSatisfies(cell, pred) ==
    \/ pred = <<>>
    \/ \E i \in 1..Len(cell) : \E j \in i..Len(cell) :
          SameIgnoringCase(SubSeq(cell, i, j), pred)

\* the three modes of the business-key predicate
CinSatisfies(cin, pred) ==
    \/ pred = <<>>
    \/ /\ pred # <<>>
       /\ IF Head(pred) = "="
          THEN SameIgnoringCase(cin, Tail(pred))
          ELSE IF pred[Len(pred)] = "*"
          THEN \E j \in 0..Len(cin) :
                  SameIgnoringCase(SubSeq(cin, 1, j), SubSeq(pred, 1, Len(pred) - 1))
          ELSE TextSatisfies(cin, pred)

\* the birth-date range on the record's date: no date is never excluded
DateSatisfies(d, from, to) ==
    \/ d = NoDate
    \/ /\ from = NoDate \/ ~ DateLT(d, from)
       /\ to = NoDate \/ ~ DateLT(to, d)

\* the displayed value of every column with a non-empty inclusion set is a member
InclusionSatisfies(p, iv) ==
    \A col \in DOMAIN iv :
        \/ iv[col] = {}
        \/ \E a \in iv[col] :
              IF col = 4 THEN a = data(p, 4) ELSE SameIgnoringCase(a, data(p, col))

\* p satisfies every active predicate of the filter state f
Satisfies(f, p) ==
    /\ InclusionSatisfies(p, f.include_values)
    /\ CinSatisfies(p.cin, f.f_cin)
    /\ TextSatisfies(p.first_name, f.f_first)
    /\ TextSatisfies(p.last_name, f.f_last)
    /\ TextSatisfies(OrEmpty(p.phone), f.f_phone)
    /\ TextSatisfies(OrEmpty(p.email), f.f_email)
    /\ DateSatisfies(p.birth_date, f.f_birth_from, f.f_birth_to)

\* C3: for every source sequence and every filter state the filter layer exposes
\* exactly the source rows that satisfy every active predicate, in source order.
C3_FilterExact ==
    LET F == Filtered(fp, rows) IN
    /\ \A i, j \in 1..Len(F) : i < j => F[i] < F[j]
    /\ {F[i] : i \in 1..Len(F)} = {r \in 0..(Len(rows) - 1) : Satisfies(fp, rows[r + 1])}

\* C3 witness: a cin predicate, a text predicate, a date bound and an inclusion set
\* are active together and the filter keeps some rows and drops others.
C3_Witness ==
    /\ fp.f_cin # <<>>
    /\ fp.f_first # <<>>
    /\ fp.f_birth_to # NoDate
    /\ DOMAIN fp.include_values # {}
    /\ Len(Filtered(fp, rows)) \in 1..(Len(rows) - 1)

-----------------------------------------------------------------------------
(* The page proxy on its own: any number of source rows, any page and size *)

\* largest number of source rows, page and page size tried in SpecPage
MaxRowsP == 23

MaxPageP == 4

MaxSizeP == 10

\* n rows that the (empty) filter lets through
PlainRows(n) ==
    [i \in 1..n |-> PatientDTO(i, <<"P">>, <<"A", "l">>, <<"K", "a">>, NoDate,
                               None, None, None)]

\* the source model of the page proxy changes to n rows
SetSource(n) ==
    /\ rows' = PlainRows(n)
    /\ UNCHANGED <<store, search, debounce, timeout_slots, fp, page, page_size, selected,
                   current_patient_id, form, edit_enabled, del_enabled, last>>

\* PageProxy.set_page(p)
SetPage(p) ==
    /\ page' = set_page(p)
    /\ UNCHANGED <<store, rows, search, debounce, timeout_slots, fp, page_size, selected,
                   current_patient_id, form, edit_enabled, del_enabled, last>>

\* PageProxy.set_page_size(k)
SetPageSize(k) ==
    /\ page_size' = set_page_size(k)
    /\ UNCHANGED <<store, rows, search, debounce, timeout_slots, fp, page, selected,
                   current_patient_id, form, edit_enabled, del_enabled, last>>

NextPage ==
    \/ \E n \in 0..MaxRowsP : SetSource(n)
    \/ \E p \in (-1)..MaxPageP : SetPage(p)
    \/ \E k \in (-1)..MaxSizeP : SetPageSize(k)

SpecPage == Init /\ [][NextPage]_vars

\* PageProxy.total_rows
total_rows == Len(Filtered(fp, rows))

\* C4: for a filtered sequence of length n, page >= 1 and pageSize >= 1, the page
\* layer exposes exactly the filtered positions p with
\* (page-1)*pageSize <= p < page*pageSize and p < n, each once.
C4_WindowExact ==
    LET w == Window(Filtered(fp, rows), rows, page, page_size) IN
    /\ page >= 1 /\ page_size >= 1
    /\ {w[i] : i \in 1..Len(w)} =
          {p \in 0..(total_rows - 1) :
              (page - 1) * page_size <= p /\ p < page * page_size}
    /\ \A i, j \in 1..Len(w) : i # j => w[i] # w[j]

\* C4 witness: the last page of a list that does not fill it (clipped window)
C4_Witness ==
    /\ total_rows = 7
    /\ page_size = 3
    /\ page = 3
    /\ Len(Window(Filtered(fp, rows), rows, page, page_size)) = 1

\* ceil(n / k) for n >= 0, k >= 1: the least c with c * k >= n
CeilDiv(n, k) == CHOOSE c \in 0..n : c * k >= n /\ \A b \in 0..(c - 1) : b * k < n

\* C5: total_pages() = max(1, ceil(n / pageSize)); n = 0 gives one empty page; every
\* page before the last shows pageSize rows and the last shows
\* n - (totalPages-1)*pageSize rows.
C5_TotalPages ==
    LET n == total_rows
        k == page_size
        tp == total_pages(n, k)
    IN  /\ tp = Max(1, CeilDiv(n, k))
        /\ tp >= 1
        /\ n = 0 => (tp = 1 /\ PageRows(1, k, n) = {})
        /\ \A p \in 1..(tp - 1) : Cardinality(PageRows(p, k, n)) = k
        /\ Cardinality(PageRows(tp, k, n)) = n - (tp - 1) * k

\* C5 witness: 23 rows in pages of 10 are 3 pages of 10, 10 and 3 rows
C5_Witness ==
    /\ total_rows = 23
    /\ page_size = 10
    /\ page = 3
    /\ total_pages(total_rows, page_size) = 3
    /\ Cardinality(PageRows(1, page_size, total_rows)) = 10
    /\ Cardinality(PageRows(2, page_size, total_rows)) = 10
    /\ Cardinality(PageRows(3, page_size, total_rows)) = 3

-----------------------------------------------------------------------------
(* Properties of ManagePatientsWindow, stated over Spec *)

\* the controller states of the window
EditingNew == edit_enabled /\ current_patient_id = NoId

EditingExisting == edit_enabled /\ current_patient_id # NoId

\* C6: after every handled user action of the window (search refresh, filter popup,
\* page-size edit, Prev, Next, save, delete, import) the page size is at least 1
\* and the current page lies between 1 and total_pages() of the filtered count.
C6_PageInRange ==
    /\ page_size >= 1
    /\ 1 <= page
    /\ page <= total_pages(total_rows, page_size)

\* C6 witness: the only record of the second page was deleted and the page came back
\* to the one page that is left
C6_Witness ==
    /\ last = [op |-> "delete", outcome |-> "deleted"]
    /\ page_size = 1
    /\ total_rows = 1
    /\ page = 1
    /\ rows[1].id = 1

\* the table shows the window's records ascending by first name, equal names in
\* source order: the source row the table displays in view row v
DisplayedSource(v) ==
    LET S == Shown(Filtered(fp, rows), page, page_size)
        first(r) == rows[r + 1].first_name
        Before(o, r) == TextLT(first(o), first(r)) \/ (first(o) = first(r) /\ o < r)
    IN  CHOOSE r \in S : Cardinality({o \in S : Before(o, r)}) = v

\* C7: a window row maps to one filtered position and that to one source position,
\* injectively; the record the controller resolves for a window row (_on_select,
\* the current-page export) is the record the table displays in that row.
C7_MappingResolves ==
    LET F == Filtered(fp, rows)
        W == Window(F, rows, page, page_size)
    IN  /\ \A i \in 1..Len(W) : W[i] \in 0..(Len(F) - 1)
        /\ \A i, j \in 1..Len(W) : i # j => W[i] # W[j]
        /\ \A i \in 1..Len(F) : F[i] \in 0..(Len(rows) - 1)
        /\ \A i, j \in 1..Len(F) : i # j => F[i] # F[j]
        /\ \A v \in 0..(Len(W) - 1) :
              /\ ResolveRow(F, W, v) = DisplayedSource(v)
              /\ ExportPageRecords(F, W, rows)[v + 1]
                    = rows[DisplayedSource(v) + 1]
        /\ selected # NoRow =>
              /\ selected \in Shown(F, page, page_size)
              /\ current_patient_id = rows[selected + 1].id

\* C7 witness: a row is selected whose place in the table differs from its place in
\* the source rows, and its record is the one loaded
C7_Witness ==
    /\ selected # NoRow
    /\ Len(Window(Filtered(fp, rows), rows, page, page_size)) = 2
    /\ SourceToView(Filtered(fp, rows), Window(Filtered(fp, rows), rows, page, page_size),
                    selected) # selected
    /\ current_patient_id = rows[selected + 1].id
    /\ form = FormOf(rows[selected + 1])

\* C8: a successful Save in Editing-New ends on page 1 with the newly created
\* record selected and loaded: Editing-Existing with current_patient_id the new id.
C8_CreatedIsSelected ==
    last = [op |-> "save", outcome |-> "created"] =>
        /\ page = 1
        /\ EditingExisting
        /\ current_patient_id = MaxIdOf(store)
        /\ selected # NoRow
        /\ rows[selected + 1].id = current_patient_id
        /\ form = FormOf(rows[selected + 1])

\* a required field of the form is empty
RequiredEmpty(fm) ==
    \/ Strip(fm.e_cin) = <<>>
    \/ Strip(fm.e_first) = <<>>
    \/ Strip(fm.e_last) = <<>>

\* another record of the store holds the form's business key
KeyConflict(st, fm, cur) ==
    \E p \in st : p.id # cur /\ SameIgnoringCase(p.cin, Strip(fm.e_cin))

\* C9: a Save aborted by an empty required field, by a business-key conflict or by
\* a declined confirmation leaves the store, the controller state, the
\* current_patient_id and the form as they were.
C9_AbortedSaveChangesNothing ==
    [][ (/\ last'.op = "save"
         /\ \/ RequiredEmpty(form)
            \/ KeyConflict(store, form, current_patient_id)
            \/ last'.outcome = "declined")
        => /\ last'.outcome \in {"invalid", "conflict", "declined"}
           /\ RequiredEmpty(form) => last'.outcome = "invalid"
           /\ store' = store
           /\ current_patient_id' = current_patient_id
           /\ form' = form
           /\ edit_enabled' = edit_enabled
           /\ del_enabled' = del_enabled
           /\ selected' = selected
           /\ rows' = rows /\ page' = page ]_vars

\* C9 witness: the Save of an existing record was refused for a key conflict and the
\* entered key is still in the form
C9_Witness ==
    /\ last = [op |-> "save", outcome |-> "conflict"]
    /\ EditingExisting
    /\ KeyConflict(store, form, current_patient_id)
    /\ \E p \in store : p.id = current_patient_id /\ p.cin # form.e_cin

\* C10: a successful, confirmed Save in Editing-Existing ends still in
\* Editing-Existing with the record selected in the page window and loaded.
C10_UpdatedIsSelected ==
    last = [op |-> "save", outcome |-> "updated"] =>
        /\ EditingExisting
        /\ selected # NoRow
        /\ selected \in Shown(Filtered(fp, rows), page, page_size)
        /\ rows[selected + 1].id = current_patient_id
        /\ form = FormOf(rows[selected + 1])

\* C11: Delete in Editing-Existing removes the loaded record from the store only
\* after the confirmation, then the list is re-queried and the controller is in
\* Browsing (no current id, form cleared and disabled); a declined confirmation
\* leaves the store and the controller as they were.
C11_DeleteConfirmed ==
    [][ (last'.op = "delete" /\ EditingExisting)
        => /\ last'.outcome \in {"deleted", "declined"}
           /\ last'.outcome = "deleted" =>
                 /\ \E p \in store : p.id = current_patient_id
                 /\ store' = {p \in store : p.id # current_patient_id}
                 /\ rows' \in list(store', OrNone(Strip(search)))
                 /\ search' = search
                 /\ current_patient_id' = NoId
                 /\ form' = EmptyForm
                 /\ ~ edit_enabled' /\ ~ del_enabled'
                 /\ selected' = NoRow
           /\ last'.outcome = "declined" => UNCHANGED <<store, uiVars>> ]_vars

\* C11 witness: one of two records was deleted; the other is listed and the
\* controller is in Browsing
C11_Witness ==
    /\ last = [op |-> "delete", outcome |-> "deleted"]
    /\ Cardinality(store) = 1
    /\ Len(rows) = 1
    /\ current_patient_id = NoId /\ form = EmptyForm
    /\ ~ edit_enabled /\ ~ del_enabled

\* C12: a step that changes a filter predicate, an inclusion set or the page size
\* leaves the controller state (Browsing, Editing-New, Editing-Existing) and the
\* record loaded in the form as they were, even when the selected record leaves
\* the page window or the filtered sequence.
C12_PredicateChangeKeepsState ==
    [][ (fp' # fp \/ page_size' # page_size)
        => /\ edit_enabled' = edit_enabled
           /\ del_enabled' = del_enabled
           /\ current_patient_id' = current_patient_id
           /\ form' = form ]_vars

\* C13: the business-key predicate has three modes, all ignoring case: a leading
\* '=' matches a row only if its cin equals the remainder; otherwise a trailing
\* '*' matches only if the cin starts with the text before it; otherwise the cin
\* must contain the predicate; the empty predicate matches every row. 'AB*'
\* matches AB12 and ABzd but not zAB12.
C13_CinModes ==
    /\ \A r \in 1..Len(rows) :
          LET cin == rows[r].cin
              pred == fp.f_cin
              n == Len(pred)
              m == _match_cin(fp, data(rows[r], 1))
          IN  IF pred = <<>> THEN m
              ELSE IF Head(pred) = "=" THEN m <=> SameIgnoringCase(cin, Tail(pred))
              ELSE IF pred[n] = "*"
              THEN m <=> /\ Len(cin) >= n - 1
                         /\ SameIgnoringCase(SubSeq(cin, 1, n - 1), SubSeq(pred, 1, n - 1))
              ELSE m <=> \E i \in 0..(Len(cin) - n) :
                            SameIgnoringCase(SubSeq(cin, i + 1, i + n), pred)
    /\ fp.f_cin = <<"A", "B", "*">> =>
          /\ _match_cin(fp, <<"A", "B", "1", "2">>)
          /\ _match_cin(fp, <<"A", "B", "z", "d">>)
          /\ ~ _match_cin(fp, <<"z", "A", "B", "1", "2">>)
    /\ fp.f_cin = <<"=", "a", "b", "1", "2">> =>
          /\ _match_cin(fp, <<"A", "B", "1", "2">>)
          /\ ~ _match_cin(fp, <<"z", "A", "B", "1", "2">>)
          /\ ~ _match_cin(fp, <<"A", "B", "1">>)

\* C13 witness: the prefix predicate AB* alone keeps ABzd and AB12 and drops zAB12
C13_Witness ==
    /\ fp = [FilterInit EXCEPT !.f_cin = <<"A", "B", "*">>]
    /\ rows = <<T5, T4, T1>>
    /\ Filtered(fp, rows) = <<1, 2>>

\* d1 <= d2 on calendar dates
DateLE(d1, d2) == d1 = d2 \/ DateLT(d1, d2)

\* C15: with a birth-date range active (from, to or both set), a row without a
\* birth date is never excluded by the range, and a row with a birth date is
\* accepted by the range exactly when from <= date (if from is set) and
\* date <= to (if to is set), both bounds inclusive.
C15_BirthRange ==
    (fp.f_birth_from # NoDate \/ fp.f_birth_to # NoDate) =>
        \A r \in 1..Len(rows) :
            LET d == rows[r].birth_date IN
            /\ d = NoDate => BirthAccepts(fp, rows[r])
            /\ d # NoDate =>
                  (BirthAccepts(fp, rows[r]) <=>
                      /\ fp.f_birth_from # NoDate => DateLE(fp.f_birth_from, d)
                      /\ fp.f_birth_to # NoDate => DateLE(d, fp.f_birth_to))

\* C15 witness: with only `from` set to 1990-05-17 the filter keeps the row born on
\* that day and the row without a date, and drops the row born in 1985
C15_Witness ==
    /\ fp = [FilterInit EXCEPT !.f_birth_from = D1]
    /\ rows = <<T1, T2, T3>>
    /\ Filtered(fp, rows) = <<0, 1>>

\* C14: accepting a column's checklist popup with every listed value checked, or
\* with none checked, removes the column's entry from the inclusion sets, so that
\* afterwards no row, one with a value not seen before included, is excluded on
\* account of that column.
C14_AllCheckedClears ==
    [][ \A col \in PopupCols :
          (ListPopupAccept(col, Seen(fp, rows, col)) \/ ListPopupAccept(col, {}))
          => /\ col \notin DOMAIN fp'.include_values
             /\ \A p \in {O1, O2, O3, O4} :
                   InclusionAccepts(
                       [FilterInit EXCEPT !.include_values =
                           [c \in {col} \cap DOMAIN fp'.include_values |->
                               fp'.include_values[c]]], p) ]_vars

\* C17: exporting the current page to CSV and importing that file into an empty
\* store creates exactly one record per exported row, with the same cin, names,
\* birth date, phone, email and notes, for every record the store can contain.
C17_ExportImportRoundTrip ==
    last.op = "export" =>
        LET r == ImportText({}, last.text) IN
        /\ r.created = Len(last.records)
        /\ r.errors = 0
        /\ Cardinality(r.store) = Len(last.records)
        /\ \A i \in 1..Len(last.records) :
              \E p \in r.store : [p EXCEPT !.id = NoId] = [last.records[i] EXCEPT !.id = NoId]

\* C20: after every successful create, update or delete made through the window,
\* the base table model holds what PatientRepo.list returns for the current search
\* text on the changed store, and the current page is 1.
C20_MutationRequeries ==
    (\/ last = [op |-> "save", outcome |-> "created"]
     \/ last = [op |-> "save", outcome |-> "updated"]
     \/ last = [op |-> "delete", outcome |-> "deleted"])
    => /\ rows \in list(store, OrNone(Strip(search)))
       /\ page = 1

\* q occurs in text when letter case is ignored
ContainsIgnoringCase(q, text) ==
    \E k \in 0..(Len(text) - Len(q)) : SameIgnoringCase(SubSeq(text, k + 1, k + Len(q)), q)

\* the texts of a record that list searches
SearchedTexts(p) ==
    {p.cin, p.first_name, p.last_name, OrEmpty(p.phone), OrEmpty(p.email), OrEmpty(p.notes),
     IF p.birth_date = NoDate THEN <<>> ELSE isoformat(p.birth_date)}

\* C18: PatientRepo.list(q) returns every record when q is absent or empty, and
\* otherwise exactly the records in which q is a case-insensitive substring of
\* the cin, a name, the phone, the email, the notes or the text of the birth
\* date; the result is ordered by last name, then first name.
C18_ListExact ==
    last.op = "list" =>
        /\ {last.result[i] : i \in 1..Len(last.result)}
              = IF last.dto = None \/ last.dto = <<>> THEN store
                ELSE {p \in store : \E t \in SearchedTexts(p) : ContainsIgnoringCase(last.dto, t)}
        /\ \A i, j \in 1..Len(last.result) :
              i < j => /\ last.result[i] # last.result[j]
                       /\ ~ TextLT(last.result[j].last_name, last.result[i].last_name)
                       /\ last.result[i].last_name = last.result[j].last_name
                             => ~ TextLT(last.result[j].first_name, last.result[i].first_name)

\* the data rows of a file: the lines that are neither blank nor comments
DataRows(file) == SelectSeq(file.lines, LAMBDA l : l.kind \notin {"blank", "comment"})

\* a data row with cin, first name and last name and a birth date that parses
WellFormedRow(row) ==
    /\ Strip(row.cin) # <<>>
    /\ Strip(row.first_name) # <<>>
    /\ Strip(row.last_name) # <<>>
    /\ parse_birth_date(row.birth_date).ok

\* a well-formed data row whose business key is neither in the store st nor in
\* an earlier well-formed row of the file
ValidRow(st, drows, i) ==
    /\ WellFormedRow(drows[i])
    /\ \A p \in st : ~ SameIgnoringCase(p.cin, Strip(drows[i].cin))
    /\ \A j \in 1..(i - 1) :
          WellFormedRow(drows[j]) => ~ SameIgnoringCase(Strip(drows[j].cin), Strip(drows[i].cin))

C19_DebouncedSearch ==
    [][ /\ search' # search
           => debounce' /\ rows' = rows /\ store' = store /\ page' = page
        /\ (debounce /\ ~ debounce')
           => /\ search' = search
              /\ store' = store
              /\ rows' \in list(store, OrNone(Strip(search)))
        /\ (~ debounce /\ search' = search) => ~ debounce' ]_vars

\* C19 witness: the timer has fired after the last change of the search text and
\* the base model holds the one of two patients that matches the text
C19_Witness ==
    /\ search = <<"l", "o">>
    /\ ~ debounce
    /\ Cardinality(store) = 2
    /\ Len(rows) = 1

\* C21: a CSV import whose header row lacks one of the seven columns is rejected
\* as a whole with an error: no record is created and the store, the base table
\* model and the pagination state stay as they were.
C21_MissingHeaderRejected ==
    [][ \A file \in ImportFiles :
          (last'.op = "import" /\ ~ file.empty /\ ~ (CSV_HEADERS \subseteq file.fieldnames)
             /\ ImportCsv(file))
          => /\ last'.outcome = "rejected"
             /\ last'.missing = CSV_HEADERS \ file.fieldnames
             /\ UNCHANGED <<store, uiVars>> ]_vars

\* C21 witness: a file without the cin and birth_date columns was refused while the
\* store held a patient and the second page was shown
C21_Witness ==
    /\ last = [op |-> "import", outcome |-> "rejected", missing |-> {"cin", "birth_date"}]
    /\ store # {}
    /\ page = 2

\* the records of the base model that the filter accepts, in the model's order
AcceptedRecords == SelectSeq(rows, LAMBDA p : filterAcceptsRow(fp, p))

\* the positions of the accepted records that lie on the current page
OnCurrentPage ==
    {i \in 1..Len(AcceptedRecords) : (page - 1) * page_size < i /\ i <= page * page_size}

\* C22: Export (page) writes one row for each record of the current page window
\* and no other, Export (all filtered) one row for each record of the filtered
\* sequence whatever the page and page size; neither writes a record the filter
\* excludes and neither changes the store, the filter or the pagination.
C22_ExportsExact ==
    [][ /\ last'.op = "export"
           => /\ UNCHANGED <<store, uiVars>>
              /\ Len(last'.records) = Cardinality(OnCurrentPage)
              /\ {last'.records[i] : i \in 1..Len(last'.records)}
                    = {AcceptedRecords[i] : i \in OnCurrentPage}
        /\ last'.op = "export_all"
           => /\ UNCHANGED <<store, uiVars>>
              /\ Len(last'.records) = Len(AcceptedRecords)
              /\ {last'.records[i] : i \in 1..Len(last'.records)}
                    = {AcceptedRecords[i] : i \in 1..Len(AcceptedRecords)}
        /\ last'.op \in {"export", "export_all"}
           => /\ \A i \in 1..Len(last'.records) : filterAcceptsRow(fp, last'.records[i])
              /\ last'.text = ExportText(last'.records) ]_vars

\* C22 witness: with a checklist filter that leaves two of three patients and one
\* row per page, the second page was exported: one record
C22_Witness ==
    /\ last.op = "export"
    /\ Len(last.records) = 1
    /\ page = 2
    /\ page_size = 1
    /\ Len(rows) = 3
    /\ Len(Filtered(fp, rows)) = 2

\* C23: New, taken from Browsing, Editing-Existing or Editing-New, ends in
\* Editing-New: no row selected, no current patient, every form field cleared, the
\* form and Save enabled, Delete disabled; the store is not modified.
C23_NewEndsInEditingNew ==
    [][ last'.op = "new"
        => /\ selected' = NoRow
           /\ current_patient_id' = NoId
           /\ form'.e_cin = <<>> /\ form'.e_first = <<>> /\ form'.e_last = <<>>
           /\ get_date(form'.e_bd) = NoDate
           /\ form'.e_phone = <<>> /\ form'.e_email = <<>> /\ form'.e_notes = <<>>
           /\ edit_enabled'
           /\ ~ del_enabled'
           /\ store' = store ]_vars

\* C23 witness: New was pressed over a store that holds patients and the window is
\* in Editing-New with nothing selected
C23_Witness ==
    /\ last = [op |-> "new", outcome |-> "done"]
    /\ store # {}
    /\ rows # <<>>
    /\ edit_enabled
    /\ current_patient_id = NoId
    /\ selected = NoRow

\* C24: in MainWindow each expiry of the search debounce timer calls
\* _refresh_patients exactly once, however many times the search text has changed
\* since the window was opened.
C24_OneRefreshPerExpiry ==
    last.op = "timeout" => last.refreshes = 1

\* C25: PatientRepo.delete of an identifier that is not in the store raises no
\* error and leaves every record as it is, so that deleting the same identifier
\* twice has the effect of deleting it once.
C25_DeleteAbsentIsNoOp ==
    [][ (last'.op = "delete" /\ last'.outcome = "ok")
        => /\ (\A p \in store : p.id # last'.dto) => store' = store
           /\ store' = {p \in store : p.id # last'.dto}
           /\ \A p \in store' : p.id # last'.dto ]_vars

\* C25 witness: delete was called with an identifier that no record of the
\* non-empty store has
C25_Witness ==
    /\ last.op = "delete"
    /\ last.outcome = "ok"
    /\ store # {}
    /\ \A p \in store : p.id # last.dto
    /\ \E p \in store : p.id > last.dto

\* C26: in every reachable state the Delete button is enabled exactly when
\* current_patient_id is not None, and whenever current_patient_id is not None the
\* form fields and Save are enabled.
C26_DeleteOnlyInEditingExisting ==
    /\ del_enabled <=> current_patient_id # NoId
    /\ current_patient_id # NoId => edit_enabled

\* C26 witness: a record is loaded, Delete and the form are enabled, and a refresh
\* has since cleared the table's selection
C26_Witness ==
    /\ current_patient_id # NoId
    /\ del_enabled
    /\ edit_enabled
    /\ selected = NoRow
    /\ \E p \in store : p.id = current_patient_id

\* the inclusion set of column c in the filter f, empty when there is none
InclusionEntry(f, c) == IF c \in DOMAIN f.include_values THEN f.include_values[c] ELSE {}

\* the text predicates of the filter f
TextPredicates(f) == <<f.f_cin, f.f_first, f.f_last, f.f_phone, f.f_email>>

\* C27: the inclusion sets and the birth-date range change only when a filter
\* popup is accepted or reset: search refresh, Prev, Next, page-size change, save,
\* delete and import leave them alone; the popup of one column leaves the
\* inclusion sets of the other columns and the text predicates alone.
C27_FilterChangedOnlyByPopup ==
    [][ /\ fp' # fp => last'.op = "popup"
        /\ TextPredicates(fp') = TextPredicates(fp)
        /\ last'.op = "popup"
           => /\ \A c \in Columns \ {last'.col} :
                    InclusionEntry(fp', c) = InclusionEntry(fp, c)
              /\ last'.col # 4
                 => fp'.f_birth_from = fp.f_birth_from /\ fp'.f_birth_to = fp.f_birth_to
        /\ (last'.op \in {"save", "delete", "import"} \/ debounce' # debounce
              \/ page_size' # page_size \/ (page' # page /\ last'.op = "other")
              \/ search' # search)
           => fp' = fp ]_vars

\* C27 witness: the last-name column and the phone column both have an inclusion
\* set and the birth-date popup has just been accepted with a range
C27_Witness ==
    /\ DOMAIN fp.include_values = {3, 5}
    /\ fp.f_birth_to # NoDate
    /\ last = [op |-> "popup", outcome |-> "accepted", col |-> 4]

\* C28: in Editing-Existing a confirmed Save made without modifying any form field
\* leaves every field of the stored record as it was, for every record that can
\* be in the store, records imported with any accepted birth date included.
C28_UnmodifiedSaveKeepsRecord ==
    [][ \A p \in store :
          (/\ last'.op = "save" /\ last'.outcome = "updated"
           /\ edit_enabled /\ current_patient_id = p.id
           /\ form = FormOf(p))
          => p \in store' /\ store' = store ]_vars

\* C29: for every filtered sequence and page size >= 1 the windows of the pages
\* 1..total_pages() partition the filtered sequence: every filtered row is in the
\* window of exactly one page, and no page beyond total_pages() has a row.
C29_PagesPartition ==
    \E n \in {total_rows} : \E tp \in {total_pages(n, page_size)} :
        /\ page_size >= 1
        /\ \A r \in 0..(n - 1) :
              Cardinality({p \in 1..tp : r \in PageRows(p, page_size, n)}) = 1
        /\ \A p \in (tp + 1)..(tp + MaxPageP) : PageRows(p, page_size, n) = {}

\* C29 witness: 23 filtered rows in pages of 10: two full windows and one of three
C29_Witness ==
    /\ total_rows = 23
    /\ page_size = 10
    /\ total_pages(total_rows, page_size) = 3
    /\ Cardinality(PageRows(3, page_size, total_rows)) = 3

\* C30: opening a column's checklist popup and accepting it with the check states
\* it came up with leaves the inclusion sets, and so the filtered sequence, as
\* they were, whether or not the column already has an inclusion set.
C30_UntouchedPopupKeepsFilter ==
    [][ \A col \in PopupCols :
          (/\ last'.op = "popup" /\ last'.outcome = "accepted" /\ last'.col = col
           /\ ListPopupAccept(col, {v \in Seen(fp, rows, col) : InitiallyChecked(fp, col, v)}))
          => /\ fp'.include_values = fp.include_values
             /\ Filtered(fp', rows') = Filtered(fp, rows) ]_vars

====
